---------------------------- MODULE Spec2Model ----------------------------
(***************************************************************************)
(* A model of nc_vip_dmv: the seen-signature store (core/state.py), the    *)
(* polling scheduler and its notification fan-out (core/scheduler.py),     *)
(* with the signatures the two checkers produce (checkers/*.py), the       *)
(* subscriptions store (core/subscriptions.py) and the service API over    *)
(* it (web/server.py).                                                     *)
(*                                                                         *)
(* Strings are sequences of tokens; "|" is a token of its own, so that the *)
(* dedup keys, which the code builds by concatenation, are built here by   *)
(* concatenation too and two keys are equal exactly when the strings are.  *)
(* Time is an integer clock (time.time() in abstract units).               *)
(***************************************************************************)
EXTENDS Integers, Sequences, FiniteSets, TLC

(***************************************************************************)
(* Bounds of the model.                                                    *)
(***************************************************************************)
MaxTime == 4           \* the clock runs over 0..MaxTime
TTL == 2               \* state_ttl_hours * 3600, in clock units
MaxIters == 3          \* iterations of the poll loop per run
MaxRestarts == 1       \* times the process is started again

(***************************************************************************)
(* The universe: configured offices, subscriber addresses, slots.          *)
(***************************************************************************)
Offices == <<"Raleigh", "Durham">>          \* config.offices, by name

\* Subscriber addresses as the API stores them: stripped and lower-cased,
\* otherwise unvalidated (web/server.py:121), so "|" may occur in one.
MailA == <<"a@x.com">>
MailB == <<"a@x.com", "|", "mon">>

\* Slots as PlaywrightChecker._extract_slots builds them: date is the text
\* from a weekday name to the next date (it may span a "|" of the page).
SlotMonTue == [date |-> <<"mon", "|", "tue 1/3">>, time |-> <<"9:00 AM">>, label |-> <<"L">>]
SlotTue == [date |-> <<"tue 1/3">>, time |-> <<"9:00 AM">>, label |-> <<"L">>]
\* six slots of one day, in page order
SlotTimes == <<"9:00 AM", "9:30 AM", "10:00 AM", "10:30 AM", "11:00 AM", "11:30 AM">>
SixSlots ==
    [i \in 1..6 |-> [date |-> <<"wed 1/4">>, time |-> <<SlotTimes[i]>>, label |-> <<"L">>]]
\* the slot lists a scrape may find: none, one, two alike, two different
PlaywrightFindings ==
    {<<>>, <<SlotTue>>, <<SlotTue, SlotTue>>, <<SlotMonTue, SlotTue>>}
\* ... and on a day with many openings: none, or six
BusyFindings == {<<>>, SixSlots}
\* The one slot check_with_browser_use builds: label is the agent's answer.
SlotAgent == [label |-> <<"AVAILABLE: tue 1/3 9:00 AM">>]
BrowserUseSlots == {SlotAgent}

None == 0 - 1          \* no timestamp
Times == 0..MaxTime

Range(q) == {q[i] : i \in DOMAIN q}
Restrict(f, S) == [x \in S |-> f[x]]
Max_second(a, b) == b
Max(a, b) == IF a >= b THEN a ELSE b
EmptyMap == [x \in {} |-> 0]

VARIABLES
    now,             \* time.time()
    data,            \* StateStore._data["seen"]: office -> (key -> timestamp)
    file,            \* the state file: [kind, seen]
    pc,              \* where the process is
    cfg,             \* AppConfig and the environment it names
    subs,            \* SubscriptionsStore._data, in insertion order: <<[email, offices]>>
    subs_file,       \* the subscriptions file: [kind, data]
    offices_cache,   \* web/server.py: the module's offices_cache
    permits,         \* the semaphore's free permits
    task,            \* per configured office: the probe task of this iteration
    results,         \* the iteration's results accumulator
    latest_results,  \* Scheduler.latest_results
    pending,         \* detached notification tasks created and not yet run
    sleepStart,      \* when the inter-iteration sleep began
    hist,            \* history of this run, for stating the properties
    life             \* history across restarts, for stating the properties

vars == <<now, data, file, pc, cfg, subs, subs_file, offices_cache, permits, task, results,
          latest_results, pending, sleepStart, hist, life>>

(***************************************************************************)
(* core/state.py: StateStore                                               *)
(***************************************************************************)
ttl_seconds == TTL

\* json.dump / json.load of {"seen": {office: {key: float}}}: keys are
\* strings and values floats, which JSON writes and reads back unchanged.
json_dump(seen) == [kind |-> "json", seen |-> seen]
MissingFile == [kind |-> "missing", seen |-> EmptyMap]
GarbageFile == [kind |-> "garbage", seen |-> EmptyMap]

\* StateStore._load: the store read from the file, and whether it raised.
_load_raises(f) == [raised |-> f.kind = "garbage", seen |-> EmptyMap]
_load(f) ==
    IF f.kind = "missing" THEN [raised |-> FALSE, seen |-> EmptyMap]
    ELSE IF f.kind = "garbage" THEN [raised |-> FALSE, seen |-> EmptyMap]
    ELSE [raised |-> FALSE, seen |-> f.seen]

\* StateStore._save
_save_nothing(seen) == json_dump(EmptyMap)
_save(seen) == json_dump(seen)

\* the filter of purge_expired: an entry is kept while now - ts <= ttl
Unexpired_strict(ts, t) == t - ts < ttl_seconds
Unexpired(ts, t) == t - ts <= ttl_seconds

purge_expired(seen, t) ==
    LET filtered(o) ==
            Restrict(seen[o], {k \in DOMAIN seen[o] : Unexpired(seen[o][k], t)})
    IN  [o \in {p \in DOMAIN seen : DOMAIN filtered(p) # {}} |-> filtered(o)]

\* StateStore.was_seen reads no clock: membership under the office only
was_seen_any_office(seen, office, key) ==
    \E o \in DOMAIN seen : key \in DOMAIN seen[o]
was_seen_never(seen, office, key) == FALSE
was_seen(seen, office, key) ==
    LET sigs == IF office \in DOMAIN seen THEN seen[office] ELSE EmptyMap
    IN  key \in DOMAIN sigs

mark_seen(seen, office, key, t) ==
    LET sigs == IF office \in DOMAIN seen THEN seen[office] ELSE EmptyMap
    IN  [o \in DOMAIN seen \cup {office} |->
            IF o = office
            THEN [k \in DOMAIN sigs \cup {key} |-> IF k = key THEN t ELSE sigs[k]]
            ELSE seen[o]]

(***************************************************************************)
(* core/subscriptions.py: SubscriptionsStore                               *)
(***************************************************************************)
\* json.dumps / json.loads of {email: [office, ...]}: a dict keeps its
\* insertion order and the lists are written and read back unchanged.
subs_json_dump(mapping) == [kind |-> "json", data |-> mapping]
SubsMissingFile == [kind |-> "missing", data |-> <<>>]
SubsGarbageFile == [kind |-> "garbage", data |-> <<>>]

\* SubscriptionsStore._load: fails open to {}
subs_load(f) == IF f.kind = "json" THEN f.data ELSE <<>>

\* SubscriptionsStore._save
subs_save(mapping) == subs_json_dump(mapping)

has_email(mapping, email) == \E i \in DOMAIN mapping : mapping[i].email = email

\* sorted(set(offices)): the distinct names in sorted order, which the set of
\* the names determines; the model keeps the set
sorted_set(offices) == {offices[i] : i \in DOMAIN offices}

\* SubscriptionsStore.get_offices_for: self._data.get(email, [])
get_offices_for(mapping, email) ==
    IF has_email(mapping, email)
    THEN (CHOOSE e \in {mapping[i] : i \in DOMAIN mapping} : e.email = email).offices
    ELSE {}

\* SubscriptionsStore.set_subscription: self._data[email] = sorted(set(offices))
set_subscription_union(mapping, email, offices) ==
    IF has_email(mapping, email)
    THEN [i \in DOMAIN mapping |->
            IF mapping[i].email = email
            THEN [email |-> email, offices |-> mapping[i].offices \cup sorted_set(offices)]
            ELSE mapping[i]]
    ELSE Append(mapping, [email |-> email, offices |-> sorted_set(offices)])
set_subscription(mapping, email, offices) ==
    IF has_email(mapping, email)
    THEN [i \in DOMAIN mapping |->
            IF mapping[i].email = email
            THEN [email |-> email, offices |-> sorted_set(offices)]
            ELSE mapping[i]]
    ELSE Append(mapping, [email |-> email, offices |-> sorted_set(offices)])

\* SubscriptionsStore.remove: pop the entry if the email is in the dict
remove_last(mapping, email) ==
    IF has_email(mapping, email) THEN SubSeq(mapping, 1, Len(mapping) - 1) ELSE mapping
remove(mapping, email) == SelectSeq(mapping, LAMBDA e : e.email # email)

\* whether remove writes the file: only when the email was present
remove_saves_always(mapping, email) == TRUE
remove_saves(mapping, email) == has_email(mapping, email)

(***************************************************************************)
(* core/scheduler.py: the dedup keys of Scheduler._handle_result           *)
(***************************************************************************)
discord_key(sig) == sig                                        \* sig
sms_key(sig) == <<"SMS", "|">> \o sig                         \* f"SMS|{sig}"
email_key(to_email, sig) ==                      \* f"EMAIL|{to_email}|{sig}"
    <<"EMAIL", "|">> \o to_email \o <<"|">> \o sig

\* Slot.signature of the two checkers
signature_playwright(slot) ==      \* f"{date or ''}|{time or ''}|{label}"
    slot.date \o <<"|">> \o slot.time \o <<"|">> \o slot.label
signature_browseruse(slot) == slot.label

(***************************************************************************)
(* History kept for stating the properties; the program does not read it.  *)
(***************************************************************************)
Stamps(seen) ==
    LET pairs == UNION {{<<o, k>> : k \in DOMAIN seen[o]} : o \in DOMAIN seen}
    IN  [p \in pairs |-> seen[p[1]][p[2]]]

\* a _handle_result call: what it was given, found and dispatched
NoCall == [office |-> "", available |-> FALSE, signatures |-> <<>>,
           storeEmpty |-> FALSE, recipients |-> <<>>, sends |-> <<>>,
           repeat |-> FALSE, at |-> None]

NoOp == [op |-> "none", office |-> "", key |-> <<>>, ret |-> FALSE, saved |-> FALSE]

HistInit(f) ==
    [ markedAt   |-> Stamps(_load(f).seen), \* <<office, key>> -> last mark_seen
      lastPurge  |-> None,                  \* time of the last purge_expired
      lastOp     |-> [NoOp EXCEPT !.op = "load"],  \* the last call on the store
      loadedFrom |-> f.kind,      \* what __init__ found at the path
      purgesInRow |-> 0,          \* purge_expired calls since another call (0, 1, 2+)
      sentAt     |-> EmptyMap,    \* this run: send tuple -> time last dispatched
      minGap     |-> EmptyMap,    \* this run: send tuple -> least time between two dispatches
      iters      |-> 0,           \* this run: iterations started
      sleeps     |-> 0,           \* this run: inter-iteration sleeps begun
      published  |-> 0,           \* this run: snapshots published
      probes     |-> 0,           \* this iteration: probe calls started
      lastIter   |-> None,        \* this run: when the last iteration began
      handled    |-> NoCall,      \* this run: the last _handle_result call
      sendFailed |-> FALSE,       \* this run: a detached send has raised
      purges     |-> 0,           \* this run: purge_expired calls of the loop
      returned   |-> <<>> ]       \* this iteration: what the probes came back with

(***************************************************************************)
(* The store on its own: any sequence of calls on one StateStore, and      *)
(* StateStore(path) constructed again on the file the last one left.       *)
(***************************************************************************)
\* the (office, key) pairs the calls are made with
StorePairs ==
    { <<Offices[1], discord_key(signature_playwright(SlotTue))>>,
      <<Offices[1], sms_key(signature_playwright(SlotTue))>>,
      <<Offices[2], discord_key(signature_playwright(SlotTue))>> }

StoreFiles ==
    {MissingFile, GarbageFile,
     json_dump(mark_seen(EmptyMap, Offices[1], sms_key(signature_playwright(SlotTue)), 0))}

LifeInit ==
    [ notifiedAt |-> EmptyMap,    \* send tuple -> time last dispatched
      minGap     |-> EmptyMap,    \* send tuple -> least time between two dispatches
      purgedAt   |-> None,        \* time of the last purge_expired
      torn       |-> FALSE,       \* a crash has cut a write of the state file
      restarts   |-> 0 ]

schedVars == <<cfg, subs, subs_file, offices_cache, permits, task, results, latest_results, pending,
               sleepStart, life>>

\* StateStore.__init__
StoreConstruct(f) ==
    /\ data = _load(f).seen
    /\ pc = IF _load(f).raised THEN "raised" ELSE "constructed"
    /\ hist = HistInit(f)

StoreInit ==
    /\ now = 0
    /\ file \in StoreFiles
    /\ StoreConstruct(file)
    /\ cfg = [checker |-> "none"]
    /\ subs = <<>>
    /\ subs_file = SubsMissingFile
    /\ offices_cache = <<>>
    /\ permits = 0
    /\ task = <<>>
    /\ life = LifeInit
    /\ results = <<>>
    /\ latest_results = <<>>
    /\ pending = {}
    /\ sleepStart = None

Tick ==
    /\ pc = "constructed"
    /\ now < MaxTime
    /\ now' = now + 1
    /\ UNCHANGED <<data, file, pc, hist, schedVars>>

\* whether purge_expired writes the file: always (state.py:45)
purge_saves_if_changed(before, after) == before # after
purge_saves(before, after) == TRUE

StorePurge ==
    /\ pc = "constructed"
    /\ data' = purge_expired(data, now)
    /\ file' = IF purge_saves(data, data') THEN _save(data') ELSE file
    /\ hist' = [hist EXCEPT !.lastPurge = now,
                            !.purgesInRow = IF @ = 0 THEN 1 ELSE 2,
                            !.lastOp = [NoOp EXCEPT !.op = "purge",
                                          !.saved = purge_saves(data, data')]]
    /\ UNCHANGED <<now, pc, schedVars>>

StoreMarkSeen(office, key) ==
    /\ pc = "constructed"
    /\ data' = mark_seen(data, office, key, now)
    /\ file' = _save(data')
    /\ hist' = [hist EXCEPT
                  !.markedAt = [p \in DOMAIN @ \cup {<<office, key>>} |->
                                   IF p = <<office, key>> THEN now ELSE @[p]],
                  !.purgesInRow = 0,
                  !.lastOp = [NoOp EXCEPT !.op = "mark_seen", !.office = office,
                                !.key = key, !.saved = TRUE]]
    /\ UNCHANGED <<now, pc, schedVars>>

StoreWasSeen(office, key) ==
    /\ pc = "constructed"
    /\ hist' = [hist EXCEPT
                  !.lastOp = [NoOp EXCEPT !.op = "was_seen", !.office = office,
                                !.key = key, !.ret = was_seen(data, office, key)]]
    /\ UNCHANGED <<now, data, file, pc, schedVars>>

\* The process ends and a new StateStore is built on the same path.
StoreReopen ==
    /\ pc = "constructed"
    /\ hist.lastOp.op # "load"
    /\ data' = _load(file).seen
    /\ pc' = IF _load(file).raised THEN "raised" ELSE "constructed"
    /\ hist' = HistInit(file)
    /\ UNCHANGED <<now, file, schedVars>>

StoreNext ==
    \/ Tick
    \/ StorePurge
    \/ \E p \in StorePairs : StoreMarkSeen(p[1], p[2])
    \/ \E p \in StorePairs : StoreWasSeen(p[1], p[2])
    \/ StoreReopen

SpecStore == StoreInit /\ [][StoreNext]_vars

(***************************************************************************)
(* core/scheduler.py: Scheduler                                            *)
(***************************************************************************)
Put(f, k, v) == [x \in DOMAIN f \cup {k} |-> IF x = k THEN v ELSE f[x]]
Min(a, b) == IF a <= b THEN a ELSE b

AVAILABLE == <<"AVAILABLE">>

\* Scheduler._get_subscribed_emails: the subscribers of the office, in the
\* order of the subscriptions dict
RECURSIVE subscribed_emails_of(_, _)
subscribed_emails_of(mapping, office_name) ==
    IF mapping = <<>> THEN <<>>
    ELSE (IF office_name \in Head(mapping).offices
          THEN <<Head(mapping).email>> ELSE <<>>)
         \o subscribed_emails_of(Tail(mapping), office_name)
_get_subscribed_emails(office_name) == subscribed_emails_of(subs, office_name)

\* the recipients of the email channel: subscribers, else the test address
email_recipients_no_fallback(office_name) == _get_subscribed_emails(office_name)
email_recipients(office_name) ==
    LET recipients == _get_subscribed_emails(office_name)
    IN  IF recipients # <<>> THEN recipients
        ELSE IF cfg.test_to_email # <<>> THEN <<cfg.test_to_email>> ELSE <<>>

Send(chan, to, office, sig) == [chan |-> chan, to |-> to, office |-> office, sig |-> sig]

\* The decisions of _handle_result in the order the code takes them: per
\* channel, (per recipient,) per signature: the key to test and the send.
discord_items(office, sigs) ==
    [i \in 1..Len(sigs) |->
        [key |-> discord_key(sigs[i]), send |-> Send("discord", <<>>, office, sigs[i])]]
sms_items(office, sigs) ==
    [i \in 1..Len(sigs) |->
        [key |-> sms_key(sigs[i]), send |-> Send("sms", <<>>, office, sigs[i])]]
email_items(office, sigs, recipients) ==
    [n \in 1..(Len(recipients) * Len(sigs)) |->
        LET r == recipients[((n - 1) \div Len(sigs)) + 1]
            g == sigs[((n - 1) % Len(sigs)) + 1]
        IN  [key |-> email_key(r, g), send |-> Send("email", r, office, g)]]

\* "if available:" and "if self.notifications_enabled:"
decides_whenever(available, notifications_enabled) == TRUE
decides(available, notifications_enabled) == available /\ notifications_enabled

\* signatures or ["AVAILABLE"]
signatures_or_none(signatures) == signatures
signatures_or_available(signatures) ==
    IF signatures # <<>> THEN signatures ELSE <<AVAILABLE>>

decision_items(office_name, available, signatures) ==
    LET sigs == signatures_or_available(signatures)
    IN  IF ~decides(available, cfg.notifications_enabled) THEN <<>>
        ELSE (IF cfg.discord_enabled THEN discord_items(office_name, sigs) ELSE <<>>)
          \o (IF cfg.sms_enabled /\ cfg.sms_configured
              THEN sms_items(office_name, sigs) ELSE <<>>)
          \o (IF cfg.email_enabled /\ cfg.email_configured
              THEN email_items(office_name, sigs, email_recipients(office_name))
              ELSE <<>>)

\* if not was_seen(key): mark_seen(key); create_task(send)
RECURSIVE decide(_, _, _, _, _)
decide(items, office, seen, sends, t) ==
    IF items = <<>> THEN [seen |-> seen, sends |-> sends]
    ELSE IF was_seen(seen, office, Head(items).key)
         THEN decide(Tail(items), office, seen, sends, t)
         ELSE decide(Tail(items), office,
                     mark_seen(seen, office, Head(items).key, t),
                     Append(sends, Head(items).send), t)

\* Scheduler._handle_result: the store and the sends it leaves
_handle_result(office_name, available, signatures) ==
    decide(decision_items(office_name, available, signatures),
           office_name, data, <<>>, now)

\* history: the sends of one call, registered in order
RECURSIVE Dispatched(_, _, _)
Dispatched(h, sends, t) ==
    IF sends = <<>> THEN h
    ELSE LET x == Head(sends)
             gap == IF x \in DOMAIN h.at THEN t - h.at[x] ELSE None
             least == IF x \in DOMAIN h.gap THEN Min(h.gap[x], gap) ELSE gap
         IN  Dispatched([at |-> Put(h.at, x, t),
                         gap |-> IF gap = None THEN h.gap ELSE Put(h.gap, x, least)],
                        Tail(sends), t)

(***************************************************************************)
(* Configurations: config.yaml, the environment and subscriptions.json.    *)
(***************************************************************************)
BaseConfig ==
    [ checker |-> "browseruse",             \* AppConfig.checker
      checker_override |-> "",              \* --checker, "" if not given
      run_once |-> FALSE,                   \* --once
      check_interval_seconds |-> 1,
      max_concurrent_checks |-> 1,
      offices |-> Offices,
      notifications_enabled |-> TRUE,       \* not --no-notify
      discord_enabled |-> TRUE,
      discord_configured |-> TRUE,          \* DISCORD_WEBHOOK_URL is set
      sms_enabled |-> TRUE,
      sms_configured |-> TRUE,              \* the TWILIO_* variables are set
      sms_to_number |-> TRUE,               \* TWILIO_TEST_TO_NUMBER is set
      email_enabled |-> TRUE,
      email_configured |-> TRUE,            \* SMTP_HOST and SMTP_FROM_EMAIL are set
      test_to_email |-> MailA,              \* SMTP_TEST_TO_EMAIL, <<>> if unset
      subscriptions |-> <<>>,               \* what subscriptions.json holds
      findings |-> PlaywrightFindings ]     \* what the site shows during the run

TwoSubscribers ==
    << [email |-> MailA, offices |-> {Offices[1]}],
       [email |-> MailB, offices |-> {Offices[1], Offices[2]}] >>

Configs ==
    { \* two offices behind one permit, polled for ever; the file says 0 for
      \* the interval and for the concurrency
      [BaseConfig EXCEPT !.check_interval_seconds = 0, !.max_concurrent_checks = 0],
      \* the same as a single pass, with two permits
      [BaseConfig EXCEPT !.run_once = TRUE, !.max_concurrent_checks = 2],
      \* one office scraped with playwright, two subscribers
      [BaseConfig EXCEPT !.checker = "playwright", !.offices = <<Offices[1]>>,
                         !.sms_enabled = FALSE, !.subscriptions = TwoSubscribers],
      \* two offices scraped with playwright behind one permit, a single pass
      [BaseConfig EXCEPT !.checker = "playwright", !.run_once = TRUE,
                         !.subscriptions = TwoSubscribers],
      \* channels that cannot deliver: Discord on without its webhook URL,
      \* SMS off, email on without its SMTP settings; one office, one pass
      [BaseConfig EXCEPT !.offices = <<Offices[1]>>, !.run_once = TRUE,
                         !.discord_configured = FALSE, !.sms_enabled = FALSE,
                         !.email_configured = FALSE],
      \* --no-notify on a day with many openings; one office, polled for ever
      [BaseConfig EXCEPT !.checker = "playwright", !.offices = <<Offices[2]>>,
                         !.notifications_enabled = FALSE,
                         !.findings = BusyFindings],
      \* a checker name the scheduler does not know, in the file
      [BaseConfig EXCEPT !.checker = "selenium"],
      \* and given as the override of a name it knows
      [BaseConfig EXCEPT !.checker = "playwright", !.checker_override = "selenium"] }

\* PlaywrightChecker.check_office: available
check_office_available(slots, says_none) == Len(slots) > 0 /\ ~says_none

\* What a probe can come back with: it raised, or an availability result.
Raised == [raised |-> TRUE, available |-> FALSE, signatures |-> <<>>]
Result(available, signatures) ==
    [raised |-> FALSE, available |-> available, signatures |-> signatures]

Outcomes(checker) ==
    IF checker = "playwright"
    THEN {Raised} \cup
         { Result(check_office_available(slots, says_none),
                  [i \in 1..Len(slots) |-> signature_playwright(slots[i])]) :
             slots \in cfg.findings, says_none \in BOOLEAN }
    ELSE {Raised, Result(FALSE, <<>>)} \cup
         { Result(TRUE, <<signature_browseruse(slot)>>) : slot \in BrowserUseSlots }

\* run(): checker_type = checker_override or self.config.checker
checker_type ==
    IF cfg.checker_override # "" THEN cfg.checker_override ELSE cfg.checker

\* run(): the if / elif / else over checker_type
run_dispatch_any(t) == "loop"
run_dispatch(t) ==
    IF t = "playwright" THEN "loop"          \* _run_with_playwright
    ELSE IF t = "browseruse" THEN "loop"     \* _run_with_browser_use
    ELSE "raised"                            \* raise ValueError

\* run(): interval and concurrency
interval == Max(1, cfg.check_interval_seconds)
concurrency == Max(1, cfg.max_concurrent_checks)

\* the entry appended to the results accumulator
results_entry_all_samples(office_name, out) ==
    [ office |-> office_name, available |-> out.available,
      count |-> Len(out.signatures), samples |-> out.signatures ]
results_entry(office_name, out) ==
    [ office |-> office_name, available |-> out.available,
      count |-> Len(out.signatures),
      samples |-> SubSeq(out.signatures, 1, Min(5, Len(out.signatures))) ]

Init ==
    /\ now = 0
    /\ file \in {MissingFile, GarbageFile}
    /\ StoreConstruct(file)
    /\ cfg \in Configs
    /\ subs = cfg.subscriptions
    /\ subs_file = subs_json_dump(subs)
    /\ offices_cache = <<>>
    /\ permits = 0
    /\ task = <<>>
    /\ results = <<>>
    /\ latest_results = <<>>
    /\ pending = {}
    /\ sleepStart = None
    /\ life = LifeInit

storeVars == <<data, file>>

\* Scheduler.run
run ==
    /\ pc = "constructed"
    /\ pc' = run_dispatch(checker_type)
    /\ permits' = IF pc' = "loop" THEN concurrency   \* asyncio.Semaphore(concurrency)
                  ELSE permits
    /\ UNCHANGED <<now, storeVars, cfg, subs, subs_file, offices_cache, task, results, latest_results,
                   pending, sleepStart, hist, life>>

\* The head of an iteration: purge_expired, then one task per office.
IterationStart ==
    /\ pc = "loop"
    /\ hist.iters < MaxIters
    /\ data' = purge_expired(data, now)
    /\ file' = IF purge_saves(data, data') THEN _save(data') ELSE file
    /\ task' = [i \in 1..Len(cfg.offices) |-> "waiting"]
    /\ results' = <<>>
    /\ pc' = "gather"
    /\ hist' = [hist EXCEPT !.iters = @ + 1, !.probes = 0, !.lastIter = now,
                            !.lastPurge = now, !.purges = @ + 1,
                            !.returned = <<>>]
    /\ life' = [life EXCEPT !.purgedAt = now]
    /\ UNCHANGED <<now, cfg, subs, subs_file, offices_cache, permits, latest_results, pending, sleepStart>>

_iteration_playwright == checker_type = "playwright" /\ IterationStart
_run_with_browser_use == checker_type = "browseruse" /\ IterationStart

\* asyncio.Semaphore: acquire succeeds at once while the value is positive
sem_unlocked_always(value) == TRUE
sem_unlocked(value) == value > 0

\* "async with sem": task i is admitted (in creation order) and calls the
\* checker, where it is suspended until the probe comes back.
Admit(i) ==
    /\ pc = "gather"
    /\ task[i] = "waiting"
    /\ \A j \in 1..(i - 1) : task[j] # "waiting"
    /\ sem_unlocked(permits)
    /\ permits' = permits - 1
    /\ task' = [task EXCEPT ![i] = "probing"]
    /\ hist' = [hist EXCEPT !.probes = @ + 1]
    /\ UNCHANGED <<now, storeVars, pc, cfg, subs, subs_file, offices_cache, results, latest_results,
                   pending, sleepStart, life>>

\* The call self._handle_result(...) on what a probe came back with: the
\* store, the file and the detached sends it leaves, and the history of it.
HandleResult(office, out) ==
    LET r == _handle_result(office, out.available, out.signatures)
        h == Dispatched([at |-> hist.sentAt, gap |-> hist.minGap], r.sends, now)
        l == Dispatched([at |-> life.notifiedAt, gap |-> life.minGap], r.sends, now)
    IN  [ data |-> r.seen,
          file |-> IF r.sends # <<>> THEN _save(r.seen) ELSE file,
          pending |-> pending \cup Range(r.sends),
          hist |-> [hist EXCEPT
                      !.sentAt = h.at, !.minGap = h.gap,
                      !.handled =
                         [ office |-> office, available |-> out.available,
                           signatures |-> out.signatures,
                           storeEmpty |-> data = EmptyMap,
                           recipients |-> _get_subscribed_emails(office),
                           sends |-> r.sends,
                           repeat |-> /\ @.office = office
                                      /\ @.available /\ out.available
                                      /\ @.signatures = out.signatures
                                      /\ @.storeEmpty
                                      /\ now - @.at <= ttl_seconds,
                           at |-> now ]],
          life |-> [life EXCEPT !.notifiedAt = l.at, !.minGap = l.gap] ]

\* The probe of office i comes back with a result: the signatures, the
\* results entry, _handle_result, and the permit is released.
ProbeReturns(i, out) ==
    /\ pc = "gather"
    /\ task[i] = "probing"
    /\ ~out.raised
    /\ LET office == cfg.offices[i]
           e == HandleResult(office, out)
       IN  /\ results' = Append(results, results_entry(office, out))
           /\ data' = e.data
           /\ file' = e.file
           /\ pending' = e.pending
           /\ hist' = [e.hist EXCEPT
                         !.returned = Append(@, [office |-> office,
                                                 available |-> out.available,
                                                 signatures |-> out.signatures])]
           /\ life' = e.life
    /\ permits' = permits + 1
    /\ task' = [task EXCEPT ![i] = "done"]
    /\ UNCHANGED <<now, pc, cfg, subs, subs_file, offices_cache, latest_results, sleepStart>>

\* "except Exception as e: print(...)": the error goes no further
on_probe_error_reraise(at) == "raised"
on_probe_error(at) == at

\* after the print the handler falls off the end of the coroutine: the
\* task of the office is finished, it does not call the checker again
task_after_error_retry(st) == "waiting"
task_after_error(st) == "failed"

\* The probe of office i raises: caught and printed, the permit is released.
ProbeRaises(i) ==
    /\ pc = "gather"
    /\ task[i] = "probing"
    /\ permits' = permits + 1
    /\ task' = [task EXCEPT ![i] = task_after_error(@)]
    /\ pc' = on_probe_error(pc)
    /\ UNCHANGED <<now, storeVars, cfg, subs, subs_file, offices_cache, results, latest_results,
                   pending, sleepStart, hist, life>>

_check_office_playwright(i) ==
    /\ checker_type = "playwright"
    /\ \/ Admit(i)
       \/ \E out \in Outcomes("playwright") : ProbeReturns(i, out)
       \/ ProbeRaises(i)

_check_office_browser_use(i) ==
    /\ checker_type = "browseruse"
    /\ \/ Admit(i)
       \/ \E out \in Outcomes("browseruse") : ProbeReturns(i, out)
       \/ ProbeRaises(i)

\* after the iteration: "if run_once: break", else asyncio.sleep(interval)
after_iteration_always_sleep(run_once) == "sleep"
after_iteration(run_once) == IF run_once THEN "returned" ELSE "sleep"

\* "await asyncio.gather(*tasks)" returns when each of the tasks it was
\* given has finished; the sends were detached with create_task and are not
\* among them
gather_returns_after_sends(tasks, sends) ==
    (\A i \in DOMAIN tasks : tasks[i] \in {"done", "failed"}) /\ sends = {}
gather_returns_first(tasks, sends) ==
    \E i \in DOMAIN tasks : tasks[i] \in {"done", "failed"}
gather_returns(tasks, sends) ==
    \A i \in DOMAIN tasks : tasks[i] \in {"done", "failed"}

\* asyncio.gather returns: the snapshot is published, then break or sleep.
IterationEnd ==
    /\ pc = "gather"
    /\ gather_returns(task, pending)
    /\ latest_results' = results
    /\ pc' = after_iteration(cfg.run_once)
    /\ sleepStart' = IF pc' = "sleep" THEN now ELSE sleepStart
    /\ hist' = [hist EXCEPT !.published = @ + 1,
                            !.sleeps = IF pc' = "sleep" THEN @ + 1 ELSE @]
    /\ UNCHANGED <<now, storeVars, cfg, subs, subs_file, offices_cache, permits, task, results, pending, life>>

\* asyncio.sleep(interval) is over
SleepDone ==
    /\ pc = "sleep"
    /\ now >= sleepStart + interval
    /\ pc' = "loop"
    /\ UNCHANGED <<now, storeVars, cfg, subs, subs_file, offices_cache, permits, task, results,
                   latest_results, pending, sleepStart, hist, life>>

\* Time passes while the process is suspended (a probe, the sleep) or down.
Suspended ==
    \/ pc \in {"sleep", "crashed", "returned"}
    \/ pc = "gather" /\ \E i \in DOMAIN task : task[i] = "probing"

TimePasses ==
    /\ Suspended
    /\ now < MaxTime
    /\ now' = now + 1
    /\ UNCHANGED <<storeVars, pc, cfg, subs, subs_file, offices_cache, permits, task, results,
                   latest_results, pending, sleepStart, hist, life>>

\* The process is killed: its memory and its detached tasks are gone.
Killed ==
    /\ data' = EmptyMap
    /\ pc' = "crashed"
    /\ permits' = 0
    /\ task' = <<>>
    /\ results' = <<>>
    /\ latest_results' = <<>>
    /\ pending' = {}
    /\ sleepStart' = None
    /\ hist' = HistInit(MissingFile)
    /\ UNCHANGED <<now, cfg, subs, subs_file, offices_cache>>

\* killed between two writes of the state file
Crash ==
    /\ pc \in {"loop", "gather", "sleep"}
    /\ Killed
    /\ UNCHANGED <<file, life>>

\* killed while purge_expired's _save is rewriting the state file, which
\* open(path, "w") has truncated: what is left does not parse
CrashInSave ==
    /\ pc = "loop"
    /\ hist.iters < MaxIters
    /\ Killed
    /\ file' = GarbageFile
    /\ life' = [life EXCEPT !.torn = TRUE]

\* The program is started again on the same files: Scheduler.__init__
Restart ==
    /\ pc \in {"crashed", "returned"}
    /\ life.restarts < MaxRestarts
    /\ data' = _load(file).seen
    /\ pc' = IF _load(file).raised THEN "raised" ELSE "constructed"
    /\ hist' = HistInit(file)
    /\ life' = [life EXCEPT !.restarts = @ + 1]
    /\ permits' = 0
    /\ task' = <<>>
    /\ results' = <<>>
    /\ latest_results' = <<>>
    /\ pending' = {}
    /\ sleepStart' = None
    /\ UNCHANGED <<now, file, cfg, subs, subs_file, offices_cache>>

\* one run of the scheduler
Next ==
    \/ run
    \/ _iteration_playwright
    \/ _run_with_browser_use
    \/ \E i \in DOMAIN task : _check_office_playwright(i)
    \/ \E i \in DOMAIN task : _check_office_browser_use(i)
    \/ IterationEnd
    \/ SleepDone
    \/ TimePasses

Spec == Init /\ [][Next]_vars

\* What _notify_discord, _notify_sms and _notify_email_to do to the dedup
\* store: they read the configuration and call the notifier, and do not
\* touch self.state.
store_after_send_cleared(seen, x) == EmptyMap
store_after_send(seen, x) == seen

\* Whether the detached task of a send reaches the channel's transport:
\* _notify_discord calls send_message only if the notifier is configured,
\* _notify_sms calls send_sms only with a target number, _notify_email_to
\* calls send_email only if the notifier is configured; each returns at
\* once when notifications or its channel are off.
notify_attempts(x) ==
    /\ cfg.notifications_enabled
    /\ IF x.chan = "discord" THEN cfg.discord_enabled /\ cfg.discord_configured
       ELSE IF x.chan = "sms"
            THEN cfg.sms_enabled /\ cfg.sms_configured /\ cfg.sms_to_number
       ELSE cfg.email_enabled /\ cfg.email_configured

\* A detached send task runs while the loop is suspended in gather or in
\* the sleep. It comes to its end (the message went out, or _notify_*
\* returned without sending) ...
SendCompletes(x) ==
    /\ pc \in {"gather", "sleep"}
    /\ x \in pending
    /\ pending' = pending \ {x}
    /\ data' = store_after_send(data, x)
    /\ UNCHANGED <<now, file, pc, cfg, subs, subs_file, offices_cache, permits, task,
                   results, latest_results, sleepStart, hist, life>>

\* ... or it raises (a transport error): nothing awaits the task, so the
\* exception stays in it. A send that never completes takes neither step.
SendFails(x) ==
    /\ pc \in {"gather", "sleep"}
    /\ x \in pending
    /\ pending' = pending \ {x}
    /\ hist' = [hist EXCEPT !.sendFailed = TRUE]
    /\ data' = store_after_send(data, x)
    /\ UNCHANGED <<now, file, pc, cfg, subs, subs_file, offices_cache, permits, task,
                   results, latest_results, sleepStart, life>>

\* the runs with their sends: one office polled for ever on two channels,
\* and a single pass over two offices scraped with playwright on one channel
SendConfigs ==
    { [BaseConfig EXCEPT !.offices = <<Offices[1]>>, !.email_enabled = FALSE],
      [BaseConfig EXCEPT !.checker = "playwright", !.run_once = TRUE,
                         !.sms_enabled = FALSE, !.email_enabled = FALSE] }

SendsInit ==
    /\ now = 0
    /\ file = MissingFile
    /\ StoreConstruct(file)
    /\ cfg \in SendConfigs
    /\ subs = cfg.subscriptions
    /\ subs_file = subs_json_dump(subs)
    /\ offices_cache = <<>>
    /\ permits = 0
    /\ task = <<>>
    /\ results = <<>>
    /\ latest_results = <<>>
    /\ pending = {}
    /\ sleepStart = None
    /\ life = LifeInit

SendsNext ==
    \/ Next
    \/ \E x \in pending : SendCompletes(x)
    \/ \E x \in pending : SendFails(x)

\* The loop takes its next step whenever it has one; of the sends nothing is
\* assumed: each may complete, raise, or stay in flight for ever.
SpecSends == SendsInit /\ [][SendsNext]_vars /\ WF_vars(Next)

\* _handle_result on its own: any sequence of calls with any result, with
\* purges and the passing of time between them.
OneSubscriber == << [email |-> MailB, offices |-> {Offices[1]}] >>
MailT == <<"t@x.com">>                       \* an SMTP_TEST_TO_EMAIL

HandleConfigs ==
    { \* Discord and email, no subscriber: the test address is the recipient
      [BaseConfig EXCEPT !.offices = <<Offices[1]>>, !.sms_enabled = FALSE],
      \* email only; Raleigh has two subscribers, one of them of Durham too
      [BaseConfig EXCEPT !.offices = <<Offices[1]>>, !.discord_enabled = FALSE,
                         !.sms_enabled = FALSE, !.subscriptions = TwoSubscribers,
                         !.test_to_email = MailT],
      \* Discord and email; Durham has no subscriber, Raleigh has one
      [BaseConfig EXCEPT !.offices = <<Offices[2]>>, !.sms_enabled = FALSE,
                         !.subscriptions = OneSubscriber],
      \* the same with SMTP_TEST_TO_EMAIL unset
      [BaseConfig EXCEPT !.offices = <<Offices[2]>>, !.sms_enabled = FALSE,
                         !.subscriptions = OneSubscriber, !.test_to_email = <<>>],
      \* --no-notify
      [BaseConfig EXCEPT !.offices = <<Offices[1]>>,
                         !.notifications_enabled = FALSE] }

\* the results it is called with: available or not, with or without slots
HandleInputs ==
    { Result(a, g) : a \in BOOLEAN, g \in {<<>>, <<signature_playwright(SlotTue)>>} }

HandleInit ==
    /\ now = 0
    /\ file = MissingFile
    /\ data = _load(file).seen
    /\ hist = HistInit(file)
    /\ pc = "handling"
    /\ cfg \in HandleConfigs
    /\ subs = cfg.subscriptions
    /\ subs_file = subs_json_dump(subs)
    /\ offices_cache = <<>>
    /\ permits = 0
    /\ task = <<>>
    /\ results = <<>>
    /\ latest_results = <<>>
    /\ pending = {}
    /\ sleepStart = None
    /\ life = LifeInit

HandleCall(office, out) ==
    /\ pc = "handling"
    /\ LET e == HandleResult(office, out)
       IN  /\ data' = e.data
           /\ file' = e.file
           /\ pending' = e.pending
           /\ hist' = e.hist
           /\ life' = e.life
    /\ UNCHANGED <<now, pc, cfg, subs, subs_file, offices_cache, permits, task, results,
                   latest_results, sleepStart>>

HandlePurge ==
    /\ pc = "handling"
    /\ data' = purge_expired(data, now)
    /\ file' = IF purge_saves(data, data') THEN _save(data') ELSE file
    /\ UNCHANGED <<now, pc, cfg, subs, subs_file, offices_cache, permits, task, results,
                   latest_results, pending, sleepStart, hist, life>>

HandleTick ==
    /\ pc = "handling"
    /\ now < MaxTime
    /\ now' = now + 1
    /\ UNCHANGED <<storeVars, pc, cfg, subs, subs_file, offices_cache, permits, task, results,
                   latest_results, pending, sleepStart, hist, life>>

HandleNext ==
    \/ \E i \in DOMAIN cfg.offices, out \in HandleInputs : HandleCall(cfg.offices[i], out)
    \/ HandlePurge
    \/ HandleTick

SpecHandle == HandleInit /\ [][HandleNext]_vars

\* runs of the scheduler on one state file, killed and started again
CrashConfigs ==
    { [BaseConfig EXCEPT !.offices = <<Offices[1]>>, !.email_enabled = FALSE],
      [BaseConfig EXCEPT !.checker = "playwright", !.offices = <<Offices[1]>>,
                         !.run_once = TRUE, !.sms_enabled = FALSE,
                         !.email_enabled = FALSE] }

CrashInit ==
    /\ now = 0
    /\ file = MissingFile
    /\ StoreConstruct(file)
    /\ cfg \in CrashConfigs
    /\ subs = cfg.subscriptions
    /\ subs_file = subs_json_dump(subs)
    /\ offices_cache = <<>>
    /\ permits = 0
    /\ task = <<>>
    /\ results = <<>>
    /\ latest_results = <<>>
    /\ pending = {}
    /\ sleepStart = None
    /\ life = LifeInit

CrashNext ==
    \/ Next
    \/ Crash
    \/ CrashInSave
    \/ Restart

SpecCrash == CrashInit /\ [][CrashNext]_vars

(***************************************************************************)
(* web/server.py: the service API over the subscriptions store             *)
(***************************************************************************)
Bearer(token) == <<"Bearer ", token>>           \* f"Bearer {expected_token}"
NoHeader == <<>>                                 \* no Authorization header
Authorizations == {NoHeader, Bearer("secret"), Bearer("wrong")}

\* the admin check: "not expected_token or authorization != Bearer ..." is 403
authorized(authorization) ==
    /\ cfg.admin_token # ""
    /\ authorization = Bearer(cfg.admin_token)

\* (payload.get("email") or "").strip().lower()
RawEmails == {<<>>, MailA, <<" A@X.com ">>, MailB}
strip_lower(raw) == IF raw = <<" A@X.com ">> THEN <<"a@x.com">> ELSE raw

\* payload.get("offices") or []: a list of names, or something that is no list
OfficeLists ==
    { <<>>, <<Offices[2], Offices[2]>>, <<Offices[2], Offices[1]>>,
      <<Offices[1], Offices[2], Offices[1]>>, <<Offices[1], "Cary">> }
Payloads ==
    { [is_list |-> TRUE, offices |-> l] : l \in OfficeLists }
      \cup { [is_list |-> FALSE, offices |-> <<>>] }

\* what discover_offices_playwright may come back with
DiscoveryResults ==
    { [raised |-> TRUE, offices |-> <<>>],
      [raised |-> FALSE,
       offices |-> << [name |-> Offices[1], url |-> "discovered"],
                      [name |-> "Cary", url |-> "discovered"] >>] }

configured_offices ==
    [i \in DOMAIN cfg.offices |-> [name |-> cfg.offices[i], url |-> "configured"]]

\* the set "known" of upsert_subscription
known_offices ==
    {offices_cache[i].name : i \in DOMAIN offices_cache}
        \cup {cfg.offices[i] : i \in DOMAIN cfg.offices}

\* api_offices, source = all: by_name filled from discovered, then from
\* configured; one entry per name (the sorted list of them, kept as a set)
merged_offices(discovered, configured) ==
    LET all == discovered \o configured
        names == {all[i].name : i \in DOMAIN all}
        last(n) == CHOOSE i \in DOMAIN all :
                      /\ all[i].name = n
                      /\ \A j \in DOMAIN all : all[j].name = n => j <= i
    IN  {all[last(n)] : n \in names}

\* startup_event._load_offices_bg: "offices_cache = discovered" is an
\* assignment inside the nested function, which has no global declaration
\* of its own: it binds a local name and the module's offices_cache stays.
_load_offices_bg(cache, outcome) == cache

ServiceConfigs ==
    { [checker |-> "none", offices |-> Offices, admin_token |-> t] :
        t \in {"", "secret"} }

SubsFiles ==
    { SubsMissingFile, SubsGarbageFile,
      subs_json_dump(<<[email |-> MailB, offices |-> {Offices[1]}]>>) }

\* the last request and its answer
NoRequest ==
    [ op |-> "startup", auth |-> NoHeader, email |-> <<>>, offices |-> <<>>,
      source |-> "", status |-> 0, body |-> <<>>,
      had |-> FALSE,           \* the email had an entry when the request came
      was |-> {} ]             \* get_offices_for(email) when the request came
ServiceHistInit ==
    [ req |-> NoRequest,
      loadedFrom |-> "",       \* what the store found at its path
      discovering |-> TRUE,    \* the startup discovery task has not finished
      discovered |-> <<>>,     \* the result of the last discovery that succeeded
      refreshed |-> FALSE ]    \* a discovery has succeeded

serviceFrame == <<now, data, file, pc, cfg, permits, task, results,
                  latest_results, pending, sleepStart, life>>

\* startup_event: SubscriptionsStore(path) is built on the file
ServiceInit ==
    /\ now = 0
    /\ data = EmptyMap
    /\ file = MissingFile
    /\ pc = "serving"
    /\ cfg \in ServiceConfigs
    /\ subs_file \in SubsFiles
    /\ subs = subs_load(subs_file)
    /\ offices_cache = <<>>
    /\ permits = 0
    /\ task = <<>>
    /\ results = <<>>
    /\ latest_results = <<>>
    /\ pending = {}
    /\ sleepStart = None
    /\ life = LifeInit
    /\ hist = [ServiceHistInit EXCEPT !.loadedFrom = subs_file.kind]

Answer(op, authorization, email, offices, source, status, body) ==
    [ op |-> op, auth |-> authorization, email |-> email, offices |-> offices,
      source |-> source, status |-> status, body |-> body,
      had |-> has_email(subs, email), was |-> get_offices_for(subs, email) ]

\* the background task of startup_event comes to its end
StartupDiscovery(outcome) ==
    /\ pc = "serving"
    /\ hist.discovering
    /\ offices_cache' = _load_offices_bg(offices_cache, outcome)
    /\ hist' = [hist EXCEPT
                  !.discovering = FALSE,
                  !.discovered = IF outcome.raised THEN @ ELSE outcome.offices,
                  !.refreshed = @ \/ ~outcome.raised,
                  !.req = [NoRequest EXCEPT !.op = "_load_offices_bg"]]
    /\ UNCHANGED <<subs, subs_file, serviceFrame>>

\* GET /api/subscriptions
list_subscriptions(authorization) ==
    /\ pc = "serving"
    /\ hist' = [hist EXCEPT !.req =
                  IF authorized(authorization)
                  THEN Answer("list", authorization, <<>>, <<>>, "", 200, subs)
                  ELSE Answer("list", authorization, <<>>, <<>>, "", 403, <<>>)]
    /\ UNCHANGED <<subs, subs_file, offices_cache, serviceFrame>>

\* upsert_subscription: "for off in offices: if off not in known: raise"
all_known_first(offices, known) == offices = <<>> \/ offices[1] \in known
all_known(offices, known) == \A i \in DOMAIN offices : offices[i] \in known

\* POST /api/subscriptions: the handler takes the payload and nothing else
upsert_subscription(authorization, raw_email, payload) ==
    /\ pc = "serving"
    /\ LET email == strip_lower(raw_email)
           ok == /\ email # <<>>
                 /\ payload.is_list
                 /\ all_known(payload.offices, known_offices)
       IN  /\ subs' = IF ok THEN set_subscription(subs, email, payload.offices) ELSE subs
           /\ subs_file' = IF ok THEN subs_save(subs') ELSE subs_file
           /\ hist' = [hist EXCEPT !.req =
                         Answer("upsert", authorization, email, payload.offices, "",
                                IF ok THEN 200 ELSE 400, <<>>)]
    /\ UNCHANGED <<offices_cache, serviceFrame>>

\* DELETE /api/subscriptions: the handler takes the payload and nothing else
delete_subscription(authorization, raw_email) ==
    /\ pc = "serving"
    /\ LET email == strip_lower(raw_email)
       IN  /\ subs' = IF email # <<>> THEN remove(subs, email) ELSE subs
           /\ subs_file' = IF email # <<>> /\ remove_saves(subs, email)
                           THEN subs_save(subs') ELSE subs_file
           /\ hist' = [hist EXCEPT !.req =
                         Answer("delete", authorization, email, <<>>, "",
                                IF email # <<>> THEN 200 ELSE 400, <<>>)]
    /\ UNCHANGED <<offices_cache, serviceFrame>>

\* GET /api/offices?source=...
api_offices(source) ==
    /\ pc = "serving"
    /\ LET discovered == offices_cache
           body == IF source = "configured" THEN Range(configured_offices)
                   ELSE IF source = "discovered" THEN Range(discovered)
                   ELSE merged_offices(discovered, configured_offices)
       IN  hist' = [hist EXCEPT !.req =
                      Answer("offices", NoHeader, <<>>, <<>>, source, 200, body)]
    /\ UNCHANGED <<subs, subs_file, offices_cache, serviceFrame>>

\* POST /api/admin/discover-offices: answers with what it discovered and
\* stores nothing
admin_discover_offices(authorization, outcome) ==
    /\ pc = "serving"
    /\ hist' = [hist EXCEPT
                  !.discovered = IF authorized(authorization) /\ ~outcome.raised
                                 THEN outcome.offices ELSE @,
                  !.refreshed = @ \/ (authorized(authorization) /\ ~outcome.raised),
                  !.req =
                     IF ~authorized(authorization)
                     THEN Answer("discover", authorization, <<>>, <<>>, "", 403, <<>>)
                     ELSE IF outcome.raised
                     THEN Answer("discover", authorization, <<>>, <<>>, "", 500, <<>>)
                     ELSE Answer("discover", authorization, <<>>, <<>>, "", 200,
                                 Range(outcome.offices))]
    /\ UNCHANGED <<subs, subs_file, offices_cache, serviceFrame>>

\* The service is stopped and started again on the same subscriptions file.
ServiceRestart ==
    /\ pc = "serving"
    /\ hist.req.op \notin {"startup", "_load_offices_bg"}
    /\ subs' = subs_load(subs_file)
    /\ offices_cache' = <<>>
    /\ hist' = [ServiceHistInit EXCEPT !.loadedFrom = subs_file.kind]
    /\ UNCHANGED <<subs_file, serviceFrame>>

ServiceNext ==
    \/ \E outcome \in DiscoveryResults : StartupDiscovery(outcome)
    \/ \E a \in Authorizations : list_subscriptions(a)
    \/ \E a \in Authorizations, e \in RawEmails, p \in Payloads :
          upsert_subscription(a, e, p)
    \/ \E a \in Authorizations, e \in RawEmails : delete_subscription(a, e)
    \/ \E source \in {"configured", "discovered", "all"} : api_offices(source)
    \/ \E a \in Authorizations, outcome \in DiscoveryResults :
          admin_discover_offices(a, outcome)
    \/ ServiceRestart

SpecService == ServiceInit /\ [][ServiceNext]_vars

\* either store on its own: the calls on a StateStore, or the requests that
\* reach the SubscriptionsStore
SpecStores == (StoreInit \/ ServiceInit) /\ [][StoreNext \/ ServiceNext]_vars

(***************************************************************************)
(* Properties of the scheduler (checked under Spec)                        *)
(***************************************************************************)
\* the dedup key _handle_result tests and marks for a send
KeyOf(x) ==
    IF x.chan = "discord" THEN discord_key(x.sig)
    ELSE IF x.chan = "sms" THEN sms_key(x.sig)
    ELSE email_key(x.to, x.sig)

TasksIn(st) == {i \in DOMAIN task : task[i] = st}
KnownChecker == checker_type \in {"playwright", "browseruse"}

\* C1: within one run, two sends dispatched for the same (office, signature,
\* channel, recipient) tuple are more than TTL apart.
C1_OneSendPerTTLWindow ==
    \A x \in DOMAIN hist.minGap : hist.minGap[x] > ttl_seconds

\* a tuple dispatched a second time, as soon as the TTL allows, in the third
\* iteration of the run
C1_Witness ==
    /\ \E x \in DOMAIN hist.minGap : hist.minGap[x] = ttl_seconds + 1
    /\ hist.iters = 3

\* C2: from an empty store, with Discord and email on and n >= 1 subscribers
\* of the office, an available result with k distinct signatures dispatches
\* exactly k Discord sends and n*k email sends; the same result again within
\* the TTL dispatches nothing.
C2_ExactFanOut ==
    LET c == hist.handled
        sigs == IF c.signatures # <<>> THEN c.signatures ELSE <<AVAILABLE>>
        k == Cardinality(Range(sigs))
        n == Len(c.recipients)
        count(chan) == Cardinality({j \in DOMAIN c.sends : c.sends[j].chan = chan})
    IN  (/\ c.at # None /\ c.available /\ n >= 1
         /\ cfg.notifications_enabled /\ cfg.discord_enabled
         /\ cfg.email_enabled /\ cfg.email_configured)
        => /\ c.storeEmpty => (count("discord") = k /\ count("email") = n * k)
           /\ c.repeat => c.sends = <<>>

\* C3: at most N = max(1, max_concurrent_checks) probe calls are outstanding
\* at any time; the other tasks wait, and one is admitted only when a probe
\* that was outstanding has finished and given its permit back.
C3_AtMostNProbes ==
    KnownChecker =>
        /\ Cardinality(TasksIn("probing")) <= concurrency
        /\ pc \in {"loop", "gather", "sleep", "returned"} =>
              permits = concurrency - Cardinality(TasksIn("probing"))

\* more offices than permits: every permit taken and a task waiting
C3_Witness ==
    /\ Len(cfg.offices) > concurrency
    /\ Cardinality(TasksIn("probing")) = concurrency
    /\ permits = 0
    /\ TasksIn("waiting") # {}

\* C4: a probe that raises changes nothing but its own task (no store write,
\* no send, no results entry, the loop goes on); the iteration publishes all
\* the same, and what it publishes has an entry for exactly the offices
\* whose probe came back, for any set of failing offices.
C4_FaultIsolation ==
    /\ [][(\E i \in DOMAIN task : i \in DOMAIN task' /\ task[i] = "probing"
                                       /\ task'[i] = "failed")
            => /\ UNCHANGED <<data, file, pending, results, latest_results, pc, hist>>
               /\ permits' = permits + 1]_vars
    /\ [](pc = "gather" =>
            /\ {results[j].office : j \in DOMAIN results}
                  = {cfg.offices[i] : i \in TasksIn("done")}
            /\ Len(results) = Cardinality(TasksIn("done")))
    /\ []((pc = "gather" /\ TasksIn("waiting") \cup TasksIn("probing") = {})
            => ENABLED IterationEnd)
    /\ [](pc \in {"sleep", "returned"} =>
            /\ hist.published = hist.iters
            /\ latest_results = results
            /\ {latest_results[j].office : j \in DOMAIN latest_results}
                  = {cfg.offices[i] : i \in TasksIn("done")})

\* an iteration published with one office failed and the other notified
C4_Witness ==
    /\ pc \in {"sleep", "returned"}
    /\ TasksIn("failed") # {}
    /\ TasksIn("done") # {}
    /\ Len(latest_results) = 1
    /\ hist.handled.office = latest_results[1].office
    /\ hist.handled.sends # <<>>

\* all offices failed: the iteration publishes an empty snapshot
C4_WitnessAllFail ==
    /\ pc \in {"sleep", "returned"}
    /\ TasksIn("failed") = DOMAIN task
    /\ latest_results = <<>>

\* C5: with run_once the run makes one iteration (one purge, one probe per
\* office, one publication) and returns without sleeping; without it the run
\* never returns and a sleep of max(1, check_interval_seconds) lies between
\* two consecutive iterations.
C5_OnceOrForever ==
    KnownChecker =>
        /\ cfg.run_once =>
              /\ hist.iters <= 1
              /\ hist.sleeps = 0
              /\ pc # "sleep"
              /\ pc = "returned" =>
                    /\ hist.iters = 1
                    /\ hist.published = 1
                    /\ hist.probes = Len(cfg.offices)
                    /\ hist.lastPurge = hist.lastIter
        /\ ~cfg.run_once =>
              /\ pc # "returned"
              /\ pc = "loop" => hist.sleeps = hist.iters
              /\ pc = "gather" => hist.sleeps = hist.iters - 1
              /\ (pc = "gather" /\ hist.iters >= 2) =>
                    hist.lastIter >= sleepStart + Max(1, cfg.check_interval_seconds)

\* a single pass that has returned
C5_Witness ==
    /\ cfg.run_once
    /\ pc = "returned"
    /\ hist.published = 1

\* a second iteration, begun one clamped interval after the first ended
C5_WitnessSleep ==
    /\ ~cfg.run_once
    /\ cfg.check_interval_seconds = 0
    /\ pc = "gather"
    /\ hist.iters = 2
    /\ hist.lastIter = sleepStart + 1

(***************************************************************************)
(* Properties across restarts (checked under SpecCrash)                    *)
(***************************************************************************)
\* C6: a send is scheduled only with its key already in the state file; and
\* when no crash has cut a write of the file, a restart finds every key
\* marked before it (unless a purge later than its TTL removed it) and no
\* tuple is dispatched again within TTL of its last dispatch, before or
\* after a restart.
C6_CrashResilientDedup ==
    /\ [][\A x \in DOMAIN life'.notifiedAt :
            (x \notin DOMAIN life.notifiedAt \/ life'.notifiedAt[x] # life.notifiedAt[x])
            => /\ file'.kind = "json"
               /\ was_seen(file'.seen, x.office, KeyOf(x))]_vars
    /\ [](~life.torn =>
            /\ \A x \in DOMAIN life.minGap : life.minGap[x] > ttl_seconds
            /\ (life.restarts >= 1 /\ pc = "constructed") =>
                  \A x \in DOMAIN life.notifiedAt :
                      ~(life.purgedAt > life.notifiedAt[x] + ttl_seconds)
                          => was_seen(data, x.office, KeyOf(x)))

\* after a crash and a restart, a slot notified before the crash is observed
\* again within its TTL and nothing is dispatched
C6_Witness ==
    /\ life.restarts >= 1
    /\ ~life.torn
    /\ hist.handled.at # None
    /\ hist.handled.available
    /\ hist.handled.sends = <<>>
    /\ \E x \in DOMAIN life.notifiedAt :
          /\ x.office = hist.handled.office
          /\ life.notifiedAt[x] < now
          /\ now <= life.notifiedAt[x] + ttl_seconds

(***************************************************************************)
(* Properties of the store (checked under SpecStore)                       *)
(***************************************************************************)
EntryAt(seen, office, key) ==
    IF office \in DOMAIN seen /\ key \in DOMAIN seen[office]
    THEN seen[office][key] ELSE None

\* C7: if mark_seen(office, key) was called at time t, was_seen(office, key)
\* is true at every time t' <= t + TTL, whatever purge_expired calls came in
\* between, and false once a purge_expired has run at a time > t + TTL with
\* no mark_seen of the pair since.
C7_SeenUntilPurgedAfterTTL ==
    \A p \in DOMAIN hist.markedAt :
        LET t == hist.markedAt[p]
        IN  /\ now <= t + ttl_seconds => was_seen(data, p[1], p[2])
            /\ hist.lastPurge > t + ttl_seconds => ~was_seen(data, p[1], p[2])

\* one pair purged after its TTL and gone, another kept by a purge within it
C7_Witness ==
    \E p, q \in DOMAIN hist.markedAt :
        /\ hist.lastPurge > hist.markedAt[p] + ttl_seconds
        /\ ~was_seen(data, p[1], p[2])
        /\ hist.markedAt[q] < hist.lastPurge
        /\ hist.lastPurge <= hist.markedAt[q] + ttl_seconds
        /\ was_seen(data, q[1], q[2])

\* C8 as stated: was_seen(office, key) is true iff an entry with
\* now - timestamp <= TTL exists for exactly that key under that office.
C8_SeenIffUnexpiredEntry ==
    \A p \in StorePairs :
        was_seen(data, p[1], p[2]) <=>
            /\ EntryAt(data, p[1], p[2]) # None
            /\ now - EntryAt(data, p[1], p[2]) <= ttl_seconds

\* C8 amended: was_seen(office, key) returns true iff the pair was marked (by
\* this store or in the file it loaded) and no purge_expired has run since at
\* a time later than its timestamp + TTL: age alone never makes it false.
C8_SeenIffMarkedAndNotPurged ==
    hist.lastOp.op = "was_seen" =>
        LET p == <<hist.lastOp.office, hist.lastOp.key>>
        IN  hist.lastOp.ret <=>
                /\ p \in DOMAIN hist.markedAt
                /\ ~(hist.lastPurge > hist.markedAt[p] + ttl_seconds)

\* an entry older than the TTL, not yet purged, is reported seen
C8_Witness ==
    /\ hist.lastOp.op = "was_seen"
    /\ hist.lastOp.ret
    /\ EntryAt(data, hist.lastOp.office, hist.lastOp.key) # None
    /\ now - EntryAt(data, hist.lastOp.office, hist.lastOp.key) > ttl_seconds
    /\ hist.lastPurge # None

NoneExpiredAt(seen, t) ==
    \A o \in DOMAIN seen : \A k \in DOMAIN seen[o] : t - seen[o][k] <= ttl_seconds

\* C9 as stated: a purge_expired that follows a purge_expired with no
\* mark_seen in between leaves the store and the file as the first left them.
C9_SecondPurgeChangesNothing ==
    [][(hist.purgesInRow >= 1 /\ hist'.purgesInRow = 2)
          => (data' = data /\ file' = file)]_vars

\* C9 amended: a purge_expired that follows a purge_expired with no mark_seen
\* in between, at a time when no remaining entry has passed its TTL (so always
\* when the clock has not moved), leaves the store and the file as the first
\* left them; and every purge_expired writes the file, also when it removed
\* nothing.
C9_SecondPurgeSameUnlessExpired ==
    /\ [][(hist.purgesInRow >= 1 /\ hist'.purgesInRow = 2 /\ NoneExpiredAt(data, now))
            => (data' = data /\ file' = file)]_vars
    /\ [](hist.lastOp.op = "purge" => (hist.lastOp.saved /\ file = json_dump(data)))

\* two purges in a row on a store with an entry, and the file written by a
\* purge that removed nothing
C9_Witness ==
    /\ hist.purgesInRow = 2
    /\ data # EmptyMap
    /\ hist.lastOp.saved
    /\ file = json_dump(data)

\* C10: a store constructed on a missing or unparseable file is empty and did
\* not raise; from then on mark_seen makes was_seen true and mark_seen and
\* purge_expired leave a valid snapshot of the store in the file.
C10_FailOpenLoad ==
    hist.loadedFrom \in {"missing", "garbage"} =>
        /\ pc = "constructed"
        /\ hist.lastOp.op = "load" => data = EmptyMap
        /\ hist.lastOp.op = "mark_seen" =>
              /\ was_seen(data, hist.lastOp.office, hist.lastOp.key)
              /\ EntryAt(data, hist.lastOp.office, hist.lastOp.key) \in Times
        /\ hist.lastOp.op \in {"mark_seen", "purge"} => file = json_dump(data)

C10_Witness ==
    /\ hist.loadedFrom = "garbage"
    /\ hist.lastOp.op = "mark_seen"
    /\ was_seen(data, hist.lastOp.office, hist.lastOp.key)
    /\ file.kind = "json"


(***************************************************************************)
(* Properties of the two stores (checked under SpecStores)                 *)
(***************************************************************************)
\* C11: in both stores the file is written through. After every completed
\* mark_seen, purge_expired, set_subscription, and remove of an email that
\* was present, the file holds exactly the snapshot in memory; and between
\* operations the snapshot in memory is what loading the file would give, so
\* the two are never further apart than an operation that is under way.
C11_WriteThrough ==
    /\ [](pc = "constructed" => _load(file).seen = data)
    /\ [](pc = "serving" => subs_load(subs_file) = subs)
    /\ [][/\ (pc' = "constructed" /\ hist'.lastOp.op \in {"mark_seen", "purge"})
             => file' = json_dump(data')
          /\ (pc' = "serving" /\ hist'.req.status = 200
                /\ (hist'.req.op = "upsert" \/ (hist'.req.op = "delete" /\ hist'.req.had)))
             => subs_file' = subs_json_dump(subs')]_vars

\* a mark_seen has just been written over a file that could not be read
C11_Witness ==
    /\ pc = "constructed"
    /\ hist.loadedFrom = "garbage"
    /\ hist.lastOp.op = "mark_seen"
    /\ data # EmptyMap
    /\ file = json_dump(data)

\* an email that was present has just been removed, in memory and on disk
C11_WitnessRemove ==
    /\ pc = "serving"
    /\ hist.req.op = "delete" /\ hist.req.status = 200 /\ hist.req.had
    /\ subs_file = subs_json_dump(subs)
    /\ ~has_email(subs, hist.req.email)

(***************************************************************************)
(* Properties of the service (checked under SpecService)                   *)
(***************************************************************************)
\* the entries of a mapping for the emails other than one
others(mapping, email) == SelectSeq(mapping, LAMBDA e : e.email # email)

\* C12: a set_subscription(email, offices) leaves get_offices_for(email)
\* equal to the set of the distinct names in offices, whatever their order
\* and repetitions and whatever the email was subscribed to before, and
\* leaves the subscription of every other email as it was.
C12_SetReplaces ==
    [][(pc = "serving" /\ hist'.req.op = "upsert" /\ hist'.req.status = 200)
       => /\ get_offices_for(subs', hist'.req.email) = Range(hist'.req.offices)
          /\ others(subs', hist'.req.email) = others(subs, hist'.req.email)]_vars

\* a list that names one office twice has replaced a subscription to the
\* other office, next to another subscriber
C12_Witness ==
    /\ pc = "serving"
    /\ hist.req.op = "upsert" /\ hist.req.status = 200
    /\ hist.req.offices = <<Offices[2], Offices[2]>>
    /\ hist.req.had /\ hist.req.was = {Offices[1]}
    /\ get_offices_for(subs, hist.req.email) = {Offices[2]}
    /\ Len(subs) = 2

\* C13: remove(email) takes out the entry of that email and no other; when
\* the email has no entry, neither the mapping in memory nor the file
\* changes. An entry goes away only in a remove of its email, or when the
\* store is built on a file that cannot be read.
C13_RemoveFrame ==
    [][pc = "serving" =>
        /\ (hist'.req.op = "delete" /\ hist'.req.status = 200)
             => /\ ~has_email(subs', hist'.req.email)
                /\ subs' = others(subs, hist'.req.email)
                /\ has_email(subs, hist'.req.email)
                     \/ (subs' = subs /\ subs_file' = subs_file)
        /\ \A i \in DOMAIN subs :
             ~has_email(subs', subs[i].email)
               => \/ (hist'.req.op = "delete" /\ hist'.req.email = subs[i].email)
                  \/ (hist'.req.op = "startup" /\ subs_file.kind # "json")]_vars

\* one of two subscribers has just been removed
C13_Witness ==
    /\ pc = "serving"
    /\ hist.req.op = "delete" /\ hist.req.status = 200 /\ hist.req.had
    /\ Len(subs) = 1
    /\ ~has_email(subs, hist.req.email)

\* a remove of an email that has no entry, with another subscriber present
\* and a file that was never written
C13_WitnessAbsent ==
    /\ pc = "serving"
    /\ hist.req.op = "delete" /\ hist.req.status = 200 /\ ~hist.req.had
    /\ hist.req.email = MailA
    /\ subs = <<>>
    /\ subs_file.kind = "garbage"


\* C15: a request to list, upsert or delete subscriptions that does not carry
\* the bearer token of the configured admin secret is answered with a client
\* error (4xx), and the subscriptions in memory and in the file stay as
\* they were.
C15_AdminTokenRequired ==
    [][(/\ pc = "serving"
        /\ hist'.req.op \in {"list", "upsert", "delete"}
        /\ ~authorized(hist'.req.auth))
       => /\ hist'.req.status \in 400..499
          /\ subs' = subs
          /\ subs_file' = subs_file]_vars

\* the names of a sequence of office entries
office_names(entries) == {entries[i].name : i \in DOMAIN entries}

\* C16: a listing with source = all has one entry for each name that is
\* configured or discovered and no other, with the configured URL for a
\* configured name; after the startup discovery or a discovery refresh of an
\* administrator has succeeded with result D, the listings name every office
\* of D and a subscription to offices of D is accepted.
C16_DiscoveredOfficesListed ==
    pc = "serving" =>
      /\ (hist.req.op = "offices" /\ hist.req.source = "all")
           => /\ {o.name : o \in hist.req.body}
                   = office_names(configured_offices) \cup office_names(hist.discovered)
              /\ \A o, q \in hist.req.body : o.name = q.name => o = q
              /\ \A o \in hist.req.body :
                   o.name \in office_names(configured_offices) => o.url = "configured"
      /\ (/\ hist.req.op = "upsert"
          /\ hist.req.email # <<>>
          /\ hist.req.offices # <<>>
          /\ Range(hist.req.offices)
               \subseteq office_names(configured_offices) \cup office_names(hist.discovered))
           => hist.req.status = 200


(***************************************************************************)
(* Properties of the detached sends (checked under SpecSends)              *)
(***************************************************************************)
\* a send is still in flight, or one has raised
SendTrouble == pending # {} \/ hist.sendFailed

\* C14: a send that raises or never completes does not stall the loop. With
\* such a send around, the iteration under way still gets past its gather
\* and publishes its results, every send a later _handle_result call decides
\* is still dispatched, and, unless run_once, the sleep still ends and the
\* next iteration starts (as far as the bounds on time let the sleep end).
C14_SendsCannotStall ==
    /\ \A k \in 1..MaxIters :
         (pc = "gather" /\ hist.iters = k /\ SendTrouble) ~> (hist.published >= k)
    /\ \A k \in 1..(MaxIters - 1) :
         (pc = "sleep" /\ hist.iters = k /\ SendTrouble
            /\ sleepStart + interval <= MaxTime) ~> (hist.iters > k)
    /\ [][(SendTrouble /\ hist'.handled # hist.handled)
            => Range(hist'.handled.sends) \subseteq pending']_vars

\* the second iteration is under way and its probe has been handled, while
\* one send of the first iteration is still in flight and another has raised
C14_Witness ==
    /\ pc = "gather"
    /\ hist.iters = 2 /\ hist.published = 1
    /\ hist.sendFailed
    /\ hist.handled.at >= hist.lastIter /\ hist.handled.sends = <<>>
    /\ pending # {}


(***************************************************************************)
(* More properties of the scheduler (checked under Spec)                   *)
(***************************************************************************)
\* C17: with a checker name that run does not know, from the configuration
\* or from the override, run raises before any iteration: the store is not
\* purged, no probe is started, the store and its file stay as they were
\* loaded, no snapshot is published and no send is dispatched in that run.
C17_UnknownCheckerRaisesFirst ==
    ~KnownChecker =>
      /\ pc \in {"constructed", "raised"}
      /\ hist.iters = 0 /\ hist.lastPurge = None
      /\ hist.probes = 0 /\ task = <<>>
      /\ data = _load(file).seen /\ file \in {MissingFile, GarbageFile}
      /\ hist.markedAt = Stamps(data)
      /\ hist.published = 0 /\ latest_results = <<>>
      /\ pending = {} /\ hist.sentAt = EmptyMap

\* run has raised on an override that replaced a name it knows
C17_Witness ==
    /\ pc = "raised"
    /\ cfg.checker = "playwright" /\ cfg.checker_override = "selenium"


\* C18: within an iteration no notification decision (a was_seen test, a
\* mark_seen, the scheduling of a send) is made for any office before the
\* probes of all the offices of that iteration have completed: while a task
\* of the iteration is still waiting or probing, no available result of the
\* iteration has been through _handle_result.
C18_BarrierBeforeDecisions ==
    (pc = "gather" /\ \E i \in DOMAIN task : task[i] \in {"waiting", "probing"})
      => ~(/\ hist.handled.at >= hist.lastIter
           /\ hist.handled.available
           /\ cfg.notifications_enabled)


\* the channel a dedup key belongs to, by its prefix
IsSmsKey(k) == Len(k) >= 2 /\ SubSeq(k, 1, 2) = <<"SMS", "|">>
IsEmailKey(k) == Len(k) >= 2 /\ SubSeq(k, 1, 2) = <<"EMAIL", "|">>
IsDiscordKey(k) == ~IsSmsKey(k) /\ ~IsEmailKey(k)

\* C19: a channel that is disabled or not configured is skipped entirely:
\* handling a result makes no dedup-store mutation for it. In a run that
\* started on an empty store, while a channel is off or lacks its
\* credentials no dedup key of that channel is in the store; for Discord,
\* SMS and email alike.
C19_SkippedChannelLeavesNoKey ==
    LET keys == UNION {DOMAIN data[o] : o \in DOMAIN data}
    IN  KnownChecker =>
          /\ ~(cfg.discord_enabled /\ cfg.discord_configured)
               => \A k \in keys : ~IsDiscordKey(k)
          /\ ~(cfg.sms_enabled /\ cfg.sms_configured)
               => \A k \in keys : ~IsSmsKey(k)
          /\ ~(cfg.email_enabled /\ cfg.email_configured)
               => \A k \in keys : ~IsEmailKey(k)


\* C20: under one office, marking the dedup key of one (channel, recipient,
\* signature) never makes was_seen true for the key of a different
\* (channel, recipient, signature): for any two different tuples among the
\* decisions of a _handle_result call, a store in which only the key of the
\* first is marked has not seen the key of the second.
C20_KeysIndependent ==
    LET c == hist.handled
        items == decision_items(c.office, c.available, c.signatures)
        tuples == {items[j].send : j \in DOMAIN items}
    IN  c.at # None =>
          \A x, y \in tuples :
             x # y => ~was_seen(mark_seen(EmptyMap, c.office, KeyOf(x), now),
                                c.office, KeyOf(y))


\* C21: in every iteration purge_expired runs exactly once, and before any
\* probe of that iteration is started; it never runs while a probe task of
\* any iteration is waiting or outstanding; and an iteration begins only
\* when the one before has finished all its tasks and published, so the
\* phases in which two iterations change the store never overlap.
C21_PurgeOnceBeforeProbes ==
    /\ [](KnownChecker =>
            /\ hist.purges = hist.iters
            /\ hist.published = IF pc = "gather" THEN hist.iters - 1 ELSE hist.iters)
    /\ [][hist'.purges # hist.purges =>
            /\ hist'.purges = hist.purges + 1 /\ hist'.iters = hist.iters + 1
            /\ \A i \in DOMAIN task : task[i] \in {"done", "failed"}
            /\ hist.published = hist.iters
            /\ hist'.probes = 0
            /\ \A i \in DOMAIN task' : task'[i] = "waiting"]_vars
    /\ [][(KnownChecker /\ data' # data) =>
            \/ hist'.purges # hist.purges
            \/ (pc = "gather" /\ hist'.handled # hist.handled
                  /\ hist'.iters = hist.iters)]_vars

\* the second purge of a run has just removed nothing from a store that
\* holds an entry, after an iteration in which both offices were probed
C21_Witness ==
    /\ pc = "gather"
    /\ hist.purges = 2 /\ hist.probes = 0
    /\ Len(task) = 2
    /\ data # EmptyMap
    /\ hist.lastPurge = now


\* C22: the public snapshot latest_results is replaced only when all probe
\* tasks of the iteration have finished, so until then it stays the complete
\* snapshot of the iteration before; and once replaced it holds, in the
\* order the probes came back, one entry for each office whose probe
\* succeeded in the iteration and none for the others, with the count of
\* the signatures and the first min(5, count) of them as samples.
C22_SnapshotAfterBarrier ==
    /\ [][latest_results' # latest_results =>
            /\ pc = "gather" /\ pc' # "gather"
            /\ \A i \in DOMAIN task : task[i] \in {"done", "failed"}
            /\ hist'.published = hist.published + 1]_vars
    /\ [](KnownChecker /\ pc # "gather" /\ hist.published > 0 =>
            /\ Len(latest_results) = Len(hist.returned)
            /\ Len(latest_results) = Cardinality({i \in DOMAIN task : task[i] = "done"})
            /\ {latest_results[j].office : j \in DOMAIN latest_results}
                 = {cfg.offices[i] : i \in {i \in DOMAIN task : task[i] = "done"}}
            /\ \A j \in DOMAIN latest_results :
                 LET e == latest_results[j]
                     r == hist.returned[j]
                     n == Len(r.signatures)
                 IN  /\ e.office = r.office /\ e.available = r.available
                     /\ e.count = n
                     /\ e.samples = [k \in 1..(IF n < 5 THEN n ELSE 5) |-> r.signatures[k]])

\* a published snapshot whose entry counts six signatures and shows five
C22_Witness ==
    /\ pc = "sleep"
    /\ \E j \in DOMAIN latest_results :
         latest_results[j].count = 6 /\ Len(latest_results[j].samples) = 5

\* a snapshot of two offices of which one probe failed: one entry
C22_WitnessOneFailed ==
    /\ pc = "returned"
    /\ Len(task) = 2 /\ \E i \in DOMAIN task : task[i] = "failed"
    /\ Len(latest_results) = 1


(***************************************************************************)
(* More properties of the detached sends (checked under SpecSends)         *)
(***************************************************************************)
\* C23: a detached send changes no store. The step in which a send comes to
\* its end, by completing, by returning early or by raising, leaves the
\* dedup store and the subscriptions, in memory and on disk, as they were;
\* the dedup store changes only in the purge_expired at the head of an
\* iteration and in the mark_seen of a _handle_result call.
C23_SendsArePureIO ==
    /\ [][(pending' # pending /\ pending' \subseteq pending) =>
            /\ data' = data /\ file' = file
            /\ subs' = subs /\ subs_file' = subs_file]_vars
    /\ [][(data' # data \/ file' # file) =>
            \/ hist'.purges = hist.purges + 1
            \/ (hist'.handled # hist.handled /\ hist'.handled.sends # <<>>)]_vars

\* a send has raised and another is still in flight, over a store that
\* holds their keys, in memory and in the file
C23_Witness ==
    /\ hist.sendFailed
    /\ pending # {}
    /\ data # EmptyMap
    /\ file = json_dump(data)


(***************************************************************************)
(* Properties of _handle_result (checked under SpecHandle)                 *)
(***************************************************************************)
\* the addresses whose subscription names the office
SubscribersOf(office) ==
    {subs[i].email : i \in {j \in DOMAIN subs : office \in subs[j].offices}}
\* whom the email channel is to write to for the office
RecipientsOf(office) ==
    IF SubscribersOf(office) # {} THEN SubscribersOf(office)
    ELSE IF cfg.test_to_email # <<>> THEN {cfg.test_to_email}
    ELSE {}
EmailOn ==
    cfg.notifications_enabled /\ cfg.email_enabled /\ cfg.email_configured

\* C24: the email recipients for an office are exactly the subscribers whose
\* subscription contains the office; the test recipient is used only when
\* there is no such subscriber; and with no subscriber and no test recipient
\* no email send is dispatched and no EMAIL key is marked for the office.
C24_EmailRecipients ==
    LET c == hist.handled
        to == {c.sends[j].to : j \in {k \in DOMAIN c.sends : c.sends[k].chan = "email"}}
    IN  /\ (c.at # None /\ c.available /\ EmailOn) =>
               /\ to \subseteq RecipientsOf(c.office)
               /\ c.storeEmpty => to = RecipientsOf(c.office)
        /\ \A i \in DOMAIN cfg.offices :
             RecipientsOf(cfg.offices[i]) = {} =>
               /\ \A x \in DOMAIN hist.sentAt :
                    ~(x.chan = "email" /\ x.office = cfg.offices[i])
               /\ cfg.offices[i] \in DOMAIN data =>
                    \A k \in DOMAIN data[cfg.offices[i]] : ~IsEmailKey(k)

\* the first call for an office with two subscribers, with a test address
\* set: both are written to and the test address is not
C24_Witness ==
    LET c == hist.handled
    IN  /\ pc = "handling"
        /\ c.at # None /\ c.available /\ c.storeEmpty
        /\ cfg.test_to_email = MailT
        /\ {c.sends[j].to : j \in DOMAIN c.sends} = {MailA, MailB}

\* an available result for an office without subscribers, with no test
\* address: Discord is notified and nobody is mailed
C24_WitnessNobody ==
    LET c == hist.handled
    IN  /\ pc = "handling"
        /\ c.at # None /\ c.available /\ EmailOn
        /\ RecipientsOf(c.office) = {} /\ subs # <<>>
        /\ Len(c.sends) = 1 /\ c.sends[1].chan = "discord"

\* the test address is written to for an office nobody subscribed to
C24_WitnessFallback ==
    LET c == hist.handled
    IN  /\ pc = "handling"
        /\ c.at # None /\ c.available /\ c.storeEmpty
        /\ SubscribersOf(c.office) = {} /\ subs # <<>>
        /\ \E j \in DOMAIN c.sends : c.sends[j].to = cfg.test_to_email


\* the sends a first sight of one signature is to cause, per channel that
\* _handle_result serves and per email recipient
SendsFor(office, sig) ==
    (IF cfg.discord_enabled THEN {Send("discord", <<>>, office, sig)} ELSE {})
      \cup (IF cfg.sms_enabled /\ cfg.sms_configured
            THEN {Send("sms", <<>>, office, sig)} ELSE {})
      \cup (IF cfg.email_enabled /\ cfg.email_configured
            THEN {Send("email", r, office, sig) : r \in RecipientsOf(office)} ELSE {})

\* C25: an available result with no signatures is handled as the one
\* signature "AVAILABLE": on an empty store it causes one send per enabled
\* channel and per email recipient, never two for the same channel and
\* recipient, and such a send is dispatched again only when its key is no
\* longer in the store, which is later than the TTL after the last one.
C25_SyntheticSignature ==
    /\ [](LET c == hist.handled
          IN  (c.at # None /\ c.available /\ c.signatures = <<>>) =>
                /\ \A j \in DOMAIN c.sends : c.sends[j].sig = AVAILABLE
                /\ \A j, k \in DOMAIN c.sends : j # k => c.sends[j] # c.sends[k]
                /\ (c.storeEmpty /\ cfg.notifications_enabled)
                     => Range(c.sends) = SendsFor(c.office, AVAILABLE))
    /\ [](\A x \in DOMAIN hist.minGap :
            x.sig = AVAILABLE => hist.minGap[x] > ttl_seconds)
    /\ [][\A x \in Range(hist'.handled.sends) :
            (hist'.handled # hist.handled /\ x.sig = AVAILABLE) =>
               /\ ~was_seen(data, x.office, KeyOf(x))
               /\ x \in DOMAIN hist.sentAt => now - hist.sentAt[x] > ttl_seconds]_vars

\* an available result without signatures is announced a second time, on
\* both channels, once the TTL of the first announcement has passed
C25_Witness ==
    LET c == hist.handled
    IN  /\ pc = "handling"
        /\ c.at = now /\ c.available /\ c.signatures = <<>>
        /\ Len(c.sends) = 2
        /\ \A j \in DOMAIN c.sends :
             c.sends[j] \in DOMAIN hist.minGap
               /\ hist.minGap[c.sends[j]] = ttl_seconds + 1


(***************************************************************************)
(* More properties of the scheduler loop (checked under Spec).             *)
(***************************************************************************)
\* the step is the return of a probe with a result
ProbeReturned == Len(hist'.returned) = Len(hist.returned) + 1

\* what that probe came back with
LastReturned == hist'.returned[Len(hist'.returned)]

\* C27: a result is turned into notification decisions only when it says
\* available and notifications are enabled; a result that says not
\* available, whatever signatures it carries, or any result while
\* notifications are off, leaves the dedup store and its file as they were
\* and schedules no send.
C27_DecisionsOnlyWhenAvailable ==
    [][ProbeReturned =>
          /\ ~(LastReturned.available /\ cfg.notifications_enabled) =>
                /\ data' = data
                /\ file' = file
                /\ pending' = pending
                /\ hist'.handled.sends = <<>>
                /\ hist'.sentAt = hist.sentAt
          /\ (data' # data \/ hist'.handled.sends # <<>>) =>
                (LastReturned.available /\ cfg.notifications_enabled)]_vars

\* a page that lists a slot and says "no appointments" has just been
\* handled, with notifications on and keys of an earlier sighting in store
C27_Witness ==
    /\ pc = "gather"
    /\ cfg.notifications_enabled
    /\ hist.handled.at = now
    /\ ~hist.handled.available
    /\ hist.handled.signatures # <<>>
    /\ hist.handled.sends = <<>>
    /\ hist.returned # <<>>
    /\ data # EmptyMap

\* six openings have just been seen with notifications off
C27_WitnessNoNotify ==
    /\ pc = "gather"
    /\ ~cfg.notifications_enabled
    /\ hist.handled.at = now
    /\ hist.handled.available
    /\ Len(hist.handled.signatures) = 6
    /\ hist.handled.sends = <<>>
    /\ data = EmptyMap
    /\ pending = {}


\* the offices whose probe has been started in this iteration
Probed == {i \in DOMAIN task : task[i] # "waiting"}

\* C26: every configured office is probed exactly once per iteration: one
\* task per office, each started at most once, all of them started when the
\* snapshot is published; a probe that failed is not started again in the
\* same iteration, and the next iteration starts over with every office.
C26_EachOfficeOncePerIteration ==
    /\ []((KnownChecker /\ pc = "gather") =>
            /\ Len(task) = Len(cfg.offices)
            /\ hist.probes = Cardinality(Probed))
    /\ []((KnownChecker /\ pc \in {"sleep", "returned"}) =>
            /\ hist.published = hist.iters
            /\ hist.probes = Len(cfg.offices)
            /\ Probed = DOMAIN cfg.offices)
    /\ [][\A i \in DOMAIN task :
            /\ (i \in DOMAIN task' /\ task'[i] = "probing" /\ task[i] # "probing")
                 => (task[i] = "waiting" /\ hist'.probes = hist.probes + 1
                       /\ hist'.iters = hist.iters)
            /\ (task[i] \in {"done", "failed"} /\ task' # task)
                 => \/ (task'[i] = task[i] /\ hist'.iters = hist.iters)
                    \/ /\ hist'.iters = hist.iters + 1
                       /\ hist.probes = Len(cfg.offices)
                       /\ hist'.probes = 0
                       /\ \A j \in DOMAIN cfg.offices : task'[j] = "waiting"]_vars

\* in the second iteration over two offices the first probe has failed and
\* the second office is being probed
C26_Witness ==
    /\ pc = "gather"
    /\ hist.iters = 2
    /\ Len(task) = 2
    /\ task[1] = "failed"
    /\ task[2] = "probing"
    /\ hist.probes = 2


\* the sends C28 expects for a signature: one per channel that is enabled
\* and configured, and per current email recipient
FreshSends(office, sig) ==
    (IF cfg.discord_enabled /\ cfg.discord_configured
     THEN {Send("discord", <<>>, office, sig)} ELSE {})
      \cup (IF cfg.sms_enabled /\ cfg.sms_configured
            THEN {Send("sms", <<>>, office, sig)} ELSE {})
      \cup (IF cfg.email_enabled /\ cfg.email_configured
            THEN {Send("email", r, office, sig) : r \in RecipientsOf(office)} ELSE {})

\* the signature was notified for the office, the last time more than the
\* TTL before the current iteration began
NotifiedLongAgo(office, sig) ==
    LET past == {x \in DOMAIN hist.sentAt : x.office = office /\ x.sig = sig}
    IN  /\ past # {}
        /\ \A x \in past : hist.lastIter > hist.sentAt[x] + ttl_seconds

\* C28: a slot is not silenced for ever: when a signature that was notified
\* for an office at time t comes back as available in an iteration that
\* began later than t + TTL, the handling of that result dispatches a send
\* for it on every enabled and configured channel and to every current
\* email recipient.
C28_NotSilencedForever ==
    [][(ProbeReturned /\ LastReturned.available /\ cfg.notifications_enabled) =>
          \A j \in DOMAIN LastReturned.signatures :
             NotifiedLongAgo(LastReturned.office, LastReturned.signatures[j])
               => FreshSends(LastReturned.office, LastReturned.signatures[j])
                    \subseteq Range(hist'.handled.sends)]_vars


(***************************************************************************)
(* The loop under any settings: interval and concurrency below, at and     *)
(* above 1, over no office, one office and two, with both checkers.  The   *)
(* loop and its probes take their next step whenever they have one.        *)
(***************************************************************************)
\* (settings.check_interval_seconds, settings.max_concurrent_checks)
LoopSettings == {<<0 - 1, 0>>, <<0, 0 - 1>>, <<2, 2>>}
\* the configured offices, and the checker they are probed with
OfficeSettings ==
    { [offices |-> <<>>, checker |-> "playwright"],
      [offices |-> <<Offices[1]>>, checker |-> "playwright"],
      [offices |-> Offices, checker |-> "browseruse"] }
QuietFindings == {<<>>, <<SlotTue>>}

SettingsConfigs ==
    { [BaseConfig EXCEPT !.checker = o.checker, !.offices = o.offices,
                         !.check_interval_seconds = v[1],
                         !.max_concurrent_checks = v[2],
                         !.notifications_enabled = FALSE,
                         !.findings = QuietFindings] :
        o \in OfficeSettings, v \in LoopSettings }

SettingsInit ==
    /\ now = 0
    /\ file = MissingFile
    /\ StoreConstruct(file)
    /\ cfg \in SettingsConfigs
    /\ subs = cfg.subscriptions
    /\ subs_file = subs_json_dump(subs)
    /\ offices_cache = <<>>
    /\ permits = 0
    /\ task = <<>>
    /\ results = <<>>
    /\ latest_results = <<>>
    /\ pending = {}
    /\ sleepStart = None
    /\ life = LifeInit

SpecSettings == SettingsInit /\ [][Next]_vars /\ WF_vars(Next)

\* the probes in flight
Probing == {i \in DOMAIN task : task[i] = "probing"}

\* C29: interval and concurrency are at least 1 whatever integer is
\* configured, the sleep lasts at least 1, the semaphore starts with at
\* least one permit and permits plus probes in flight stay equal to the
\* concurrency; so, the probes coming back, every iteration that has begun
\* reaches its end, over any number of offices.
C29_IterationsTerminate ==
    /\ [](/\ interval >= 1 /\ interval >= cfg.check_interval_seconds
          /\ concurrency >= 1 /\ concurrency >= cfg.max_concurrent_checks)
    /\ [](pc \in {"gather", "sleep"} =>
            /\ permits + Cardinality(Probing) = concurrency
            /\ Cardinality(Probing) <= concurrency)
    /\ [][(pc = "sleep" /\ pc' = "loop") => now >= sleepStart + 1]_vars
    /\ (pc = "gather") ~> (pc = "sleep")

\* two offices have been polled twice behind a concurrency setting of 0,
\* with an interval setting of -1
C29_Witness ==
    /\ pc = "sleep"
    /\ cfg.max_concurrent_checks = 0
    /\ cfg.check_interval_seconds = 0 - 1
    /\ Len(cfg.offices) = 2
    /\ hist.published = 2
    /\ permits = 1

\* no office is configured: the iteration ends without a probe
C29_WitnessNoOffice ==
    /\ pc = "sleep"
    /\ cfg.offices = <<>>
    /\ cfg.max_concurrent_checks < 1
    /\ hist.published = 2
    /\ hist.probes = 0


(***************************************************************************)
(* More properties of the web service (checked under SpecService).         *)
(***************************************************************************)
\* the step is the answer to an upsert
UpsertAnswered == hist'.req.op = "upsert" /\ hist'.req # hist.req

\* the names that are configured or were discovered when the request came
KnownAtRequest ==
    office_names(configured_offices) \cup office_names(hist.discovered)

\* C30: an upsert that names an office which is neither configured nor
\* discovered is answered with a client error and changes neither the
\* subscriptions nor their file, whatever else it names; an upsert that is
\* not answered 200 stores nothing, and one that is stores only names that
\* were known when it came.
C30_UnknownOfficeRejected ==
    [][UpsertAnswered =>
          LET q == hist'.req
          IN  /\ (\E i \in DOMAIN q.offices : q.offices[i] \notin KnownAtRequest)
                   => /\ q.status \in 400..499
                      /\ subs' = subs
                      /\ subs_file' = subs_file
              /\ q.status # 200 => (subs' = subs /\ subs_file' = subs_file)
              /\ q.status = 200 =>
                   /\ get_offices_for(subs', q.email) \subseteq KnownAtRequest
                   /\ get_offices_for(subs', q.email) \subseteq known_offices]_vars

\* a subscriber of Raleigh asked for Raleigh and Cary while Cary was not
\* known: refused, and the entry is what it was
C30_Witness ==
    /\ pc = "serving"
    /\ hist.req.op = "upsert"
    /\ hist.req.status = 400
    /\ hist.req.email # <<>>
    /\ Range(hist.req.offices) = {Offices[1], "Cary"}
    /\ "Cary" \notin KnownAtRequest
    /\ hist.req.had
    /\ hist.req.was # {}
    /\ get_offices_for(subs, hist.req.email) = hist.req.was
    /\ subs_file = subs_json_dump(subs)


(***************************************************************************)
(* The store on a state file that parses as JSON but does not hold the     *)
(* layout {"seen": {office: {key: timestamp}}}.  json.load hands back      *)
(* whatever the file holds and _load keeps it as self._data; here "data"   *)
(* is then one of the values below in place of the seen map.               *)
(***************************************************************************)
EmptyObject == [json |-> "{}"]              \* the file holds {}
EmptyArray == [json |-> "[]"]               \* the file holds []
SeenArray == [json |-> "{\"seen\": []}"]    \* the file holds {"seen": []}
OtherLayouts == {EmptyObject, EmptyArray, SeenArray}

\* what json.load found, by name
json_shape(d) ==
    IF d = EmptyObject THEN "object without seen"
    ELSE IF d = EmptyArray THEN "array"
    ELSE IF d = SeenArray THEN "seen is an array"
    ELSE "layout"

\* purge_expired on any self._data: self._data.get("seen", {}) raises
\* AttributeError on a list, seen.items() raises it on a list under "seen";
\* an object without "seen" gets an empty one
purge_expired_call(d, t) ==
    IF d \in {EmptyArray, SeenArray} THEN [raised |-> TRUE, data |-> d]
    ELSE IF d = EmptyObject THEN [raised |-> FALSE, data |-> EmptyMap]
    ELSE [raised |-> FALSE, data |-> purge_expired(d, t)]

\* was_seen on any self._data: self._data["seen"] raises KeyError on an
\* object without "seen" and TypeError on a list, .get raises on a list
was_seen_call(d, office, key) ==
    IF d \in OtherLayouts THEN [raised |-> TRUE, ret |-> FALSE]
    ELSE [raised |-> FALSE, ret |-> was_seen(d, office, key)]

\* mark_seen on any self._data: self._data["seen"].setdefault, likewise
mark_seen_call(d, office, key, t) ==
    IF d \in OtherLayouts THEN [raised |-> TRUE, data |-> d]
    ELSE [raised |-> FALSE, data |-> mark_seen(d, office, key, t)]

LayoutFiles ==
    {MissingFile, json_dump(EmptyObject), json_dump(EmptyArray), json_dump(SeenArray),
     json_dump(mark_seen(EmptyMap, Offices[1], sms_key(signature_playwright(SlotTue)), 0))}

\* StateStore.__init__ on such a file, in a Scheduler about to run
LayoutInit ==
    /\ now = 0
    /\ file \in LayoutFiles
    /\ data = _load(file).seen
    /\ pc = IF _load(file).raised THEN "raised" ELSE "constructed"
    /\ hist = [HistInit(MissingFile) EXCEPT !.loadedFrom = json_shape(data)]
    /\ cfg = [checker |-> "none"]
    /\ subs = <<>>
    /\ subs_file = SubsMissingFile
    /\ offices_cache = <<>>
    /\ permits = 0
    /\ task = <<>>
    /\ life = LifeInit
    /\ results = <<>>
    /\ latest_results = <<>>
    /\ pending = {}
    /\ sleepStart = None

\* the head of an iteration: self.state.purge_expired(); an exception leaves
\* the loop and run()
LayoutPurge ==
    /\ pc \in {"constructed", "iterating"}
    /\ LET r == purge_expired_call(data, now)
       IN  /\ data' = r.data
           /\ file' = IF r.raised THEN file ELSE _save(r.data)
           /\ pc' = IF r.raised THEN "raised" ELSE "iterating"
           /\ hist' = [hist EXCEPT !.lastPurge = now,
                                   !.lastOp = [NoOp EXCEPT !.op = "purge",
                                                 !.saved = ~r.raised]]
    /\ UNCHANGED <<now, schedVars>>

\* _handle_result: was_seen of a key ...
LayoutWasSeen(office, key) ==
    /\ pc = "iterating"
    /\ LET r == was_seen_call(data, office, key)
       IN  /\ pc' = IF r.raised THEN "raised" ELSE pc
           /\ hist' = [hist EXCEPT
                         !.lastOp = [NoOp EXCEPT !.op = "was_seen", !.office = office,
                                       !.key = key, !.ret = r.ret]]
    /\ UNCHANGED <<now, data, file, schedVars>>

\* ... and mark_seen of it
LayoutMarkSeen(office, key) ==
    /\ pc = "iterating"
    /\ LET r == mark_seen_call(data, office, key, now)
       IN  /\ data' = r.data
           /\ file' = IF r.raised THEN file ELSE _save(r.data)
           /\ pc' = IF r.raised THEN "raised" ELSE pc
           /\ hist' = [hist EXCEPT
                         !.markedAt = IF r.raised THEN @
                                      ELSE [p \in DOMAIN @ \cup {<<office, key>>} |->
                                              IF p = <<office, key>> THEN now ELSE @[p]],
                         !.lastOp = [NoOp EXCEPT !.op = "mark_seen", !.office = office,
                                       !.key = key, !.saved = ~r.raised]]
    /\ UNCHANGED <<now, schedVars>>

LayoutTick ==
    /\ pc \in {"constructed", "iterating"}
    /\ now < MaxTime
    /\ now' = now + 1
    /\ UNCHANGED <<data, file, pc, hist, schedVars>>

LayoutNext ==
    \/ LayoutPurge
    \/ \E p \in StorePairs : LayoutWasSeen(p[1], p[2])
    \/ \E p \in StorePairs : LayoutMarkSeen(p[1], p[2])
    \/ LayoutTick

SpecLayout == LayoutInit /\ [][LayoutNext]_vars

\* C33: on a state file that parses as JSON without holding the persisted
\* layout, the store is constructed and the calls of the first iteration
\* (purge_expired, then was_seen and mark_seen) do not raise, and a key is
\* reported seen only if it was marked since.
C33_OtherLayoutTolerated ==
    hist.loadedFrom # "layout" =>
       /\ pc # "raised"
       /\ (hist.lastOp.op = "was_seen" /\ hist.lastOp.ret)
             => <<hist.lastOp.office, hist.lastOp.key>> \in DOMAIN hist.markedAt


(***************************************************************************)
(* One office configured twice and probed by two tasks at once.  Between   *)
(* the return of "await checker.check_office" and the end of the           *)
(* synchronous _handle_result no await lies, so the event loop runs the    *)
(* whole of it as one step: ProbeReturns.                                  *)
(***************************************************************************)
Twins == <<Offices[1], Offices[1]>>

TwinConfigs ==
    { \* polled for ever by the agent, two permits, Discord and SMS
      [BaseConfig EXCEPT !.offices = Twins, !.max_concurrent_checks = 2,
                         !.email_enabled = FALSE],
      \* a single scraping pass, two permits, Discord and two subscribers
      [BaseConfig EXCEPT !.checker = "playwright", !.offices = Twins,
                         !.max_concurrent_checks = 2, !.run_once = TRUE,
                         !.sms_enabled = FALSE, !.subscriptions = TwoSubscribers] }

TwinInit ==
    /\ now = 0
    /\ file = MissingFile
    /\ StoreConstruct(file)
    /\ cfg \in TwinConfigs
    /\ subs = cfg.subscriptions
    /\ subs_file = subs_json_dump(subs)
    /\ offices_cache = <<>>
    /\ permits = 0
    /\ task = <<>>
    /\ results = <<>>
    /\ latest_results = <<>>
    /\ pending = {}
    /\ sleepStart = None
    /\ life = LifeInit

SpecTwins == TwinInit /\ [][Next]_vars

\* the sends dispatched since the current iteration began
SentThisIteration ==
    {x \in DOMAIN hist.sentAt : hist.sentAt[x] >= hist.lastIter}

\* the store holds the key under the office
Holds(seen, office, key) == office \in DOMAIN seen /\ key \in DOMAIN seen[office]

\* C32: was_seen and the mark_seen that follows it are one step: a send is
\* dispatched only for a key that the store, as the other tasks left it, did
\* not hold, and the key is in the store when the step is over; so of two
\* tasks of one iteration that report the same office and signature exactly
\* one dispatches each send: none is dispatched twice within the TTL, and
\* when both have reported the same available result each of its keys is in
\* the store, stamped with the time at which a send for it was dispatched.
C32_CheckAndMarkAtomic ==
    /\ [][ProbeReturned =>
            \A x \in Range(hist'.handled.sends) :
               /\ ~Holds(data, x.office, KeyOf(x))
               /\ Holds(data', x.office, KeyOf(x))
               /\ x \in DOMAIN hist.sentAt => now - hist.sentAt[x] > ttl_seconds]_vars
    /\ [](\A x \in DOMAIN hist.minGap : hist.minGap[x] > ttl_seconds)
    /\ []((/\ pc = "gather"
           /\ Len(hist.returned) = 2
           /\ hist.returned[1] = hist.returned[2]
           /\ hist.returned[1].available
           /\ cfg.notifications_enabled) =>
            LET items == decision_items(hist.returned[1].office, TRUE,
                                        hist.returned[1].signatures)
            IN  \A j \in DOMAIN items :
                   /\ Holds(data, hist.returned[1].office, items[j].key)
                   /\ \E x \in DOMAIN hist.sentAt :
                         /\ KeyOf(x) = items[j].key
                         /\ x.office = hist.returned[1].office
                         /\ hist.sentAt[x] = data[x.office][items[j].key])

\* both tasks were probing at once and have reported the same available
\* slot; the first dispatched the sends and the second none
C32_Witness ==
    /\ pc = "gather"
    /\ hist.iters = 1
    /\ permits = 2
    /\ Len(hist.returned) = 2
    /\ hist.returned[1] = hist.returned[2]
    /\ hist.returned[1].available
    /\ hist.handled.sends = <<>>
    /\ SentThisIteration # {}
    /\ hist.probes = 2


\* C31: every dispatch decision leads to a delivery attempt: a key is marked
\* seen only together with a send whose task reaches the transport of its
\* channel, so for every send dispatched (its key marked) the _notify_
\* function of its channel gets as far as the notifier's send call.
C31_DecisionLeadsToAttempt ==
    \A x \in DOMAIN hist.sentAt :
       Holds(data, x.office, KeyOf(x)) => notify_attempts(x)


(***************************************************************************)
(* The two loops side by side.  Each is written out from its own lines of  *)
(* core/scheduler.py as a function from the state of the run and an event  *)
(* (the loop is resumed, a task is admitted, a probe comes back or raises, *)
(* gather returns, the sleep is over) to whether the loop can take the     *)
(* step and the state it leaves.  The probe outcomes are the same for      *)
(* both: the strategies differ in how a probe is made, which is not part   *)
(* of the orchestration.                                                   *)
(***************************************************************************)
\* the part of the state the loops work on
LoopState ==
    [ data |-> data, file |-> file, pc |-> pc, permits |-> permits, task |-> task,
      results |-> results, latest_results |-> latest_results, pending |-> pending,
      sleepStart |-> sleepStart ]

Event(kind, i, out) == [kind |-> kind, i |-> i, out |-> out]

\* what a probe comes back with, whichever strategy made it
LoopOutcomes ==
    { Result(FALSE, <<signature_playwright(SlotTue)>>),
      Result(TRUE, <<signature_playwright(SlotTue)>>),
      Result(TRUE, <<signature_playwright(SlotMonTue), signature_playwright(SlotTue)>>) }

LoopEvents ==
    {Event(k, 0, Raised) : k \in {"start", "head", "end", "wake"}}
      \cup {Event(k, i, Raised) : k \in {"admit", "raises"}, i \in DOMAIN Offices}
      \cup {Event("returns", i, out) : i \in DOMAIN Offices, out \in LoopOutcomes}

\* the entry _check_office_browser_use appends to the accumulator
results_entry_browser_use(office_name, out) ==
    [ office |-> office_name, available |-> out.available,
      count |-> Len(out.signatures),
      samples |-> SubSeq(out.signatures, 1, Min(5, Len(out.signatures))) ]

\* _run_with_browser_use: "if run_once: break", else asyncio.sleep(interval)
after_iteration_browser_use(run_once) == IF run_once THEN "returned" ELSE "sleep"

\* _run_with_playwright, _iteration_playwright, _check_office_playwright
playwright_loop(e) ==
    LET s == LoopState
        i == e.i
        enabled ==
            CASE e.kind = "start" -> pc = "constructed"
              [] e.kind = "head" -> pc = "loop"
              [] e.kind = "admit" ->
                   /\ pc = "gather" /\ i \in DOMAIN task /\ task[i] = "waiting"
                   /\ \A j \in 1..(i - 1) : task[j] # "waiting"
                   /\ sem_unlocked(permits)
              [] e.kind \in {"returns", "raises"} ->
                   pc = "gather" /\ i \in DOMAIN task /\ task[i] = "probing"
              [] e.kind = "end" ->
                   pc = "gather" /\ \A j \in DOMAIN task : task[j] \in {"done", "failed"}
              [] OTHER -> pc = "sleep" /\ now >= sleepStart + interval
        next ==
            CASE e.kind = "start" ->        \* sem = asyncio.Semaphore(concurrency)
                   [s EXCEPT !.pc = "loop", !.permits = concurrency]
              [] e.kind = "head" ->         \* purge_expired; tasks = [...]; results = []
                   [s EXCEPT !.data = purge_expired(data, now),
                             !.file = _save(purge_expired(data, now)),
                             !.task = [j \in DOMAIN cfg.offices |-> "waiting"],
                             !.results = <<>>,
                             !.pc = "gather"]
              [] e.kind = "admit" ->        \* async with sem: await checker.check_office
                   [s EXCEPT !.permits = @ - 1, !.task[i] = "probing"]
              [] e.kind = "returns" ->      \* append the entry, _handle_result, release
                   LET r == _handle_result(cfg.offices[i], e.out.available, e.out.signatures)
                   IN  [s EXCEPT !.results = Append(@, results_entry(cfg.offices[i], e.out)),
                                 !.data = r.seen,
                                 !.file = IF r.sends # <<>> THEN _save(r.seen) ELSE @,
                                 !.pending = @ \cup Range(r.sends),
                                 !.permits = @ + 1,
                                 !.task[i] = "done"]
              [] e.kind = "raises" ->       \* except Exception: print; release
                   [s EXCEPT !.permits = @ + 1, !.task[i] = "failed"]
              [] e.kind = "end" ->          \* self.latest_results = results; break or sleep
                   [s EXCEPT !.latest_results = results,
                             !.pc = after_iteration(cfg.run_once),
                             !.sleepStart = IF cfg.run_once THEN @ ELSE now]
              [] OTHER ->                   \* asyncio.sleep(interval) is over
                   [s EXCEPT !.pc = "loop"]
    IN  [enabled |-> enabled, next |-> IF enabled THEN next ELSE s]

\* _run_with_browser_use, _check_office_browser_use
browseruse_loop(e) ==
    LET s == LoopState
        i == e.i
        enabled ==
            CASE e.kind = "start" -> pc = "constructed"
              [] e.kind = "head" -> pc = "loop"
              [] e.kind = "admit" ->
                   /\ pc = "gather" /\ i \in DOMAIN task /\ task[i] = "waiting"
                   /\ \A j \in 1..(i - 1) : task[j] # "waiting"
                   /\ sem_unlocked(permits)
              [] e.kind \in {"returns", "raises"} ->
                   pc = "gather" /\ i \in DOMAIN task /\ task[i] = "probing"
              [] e.kind = "end" ->
                   pc = "gather" /\ \A j \in DOMAIN task : task[j] \in {"done", "failed"}
              [] OTHER -> pc = "sleep" /\ now >= sleepStart + interval
        next ==
            CASE e.kind = "start" ->        \* sem = asyncio.Semaphore(concurrency)
                   [s EXCEPT !.pc = "loop", !.permits = concurrency]
              [] e.kind = "head" ->         \* purge_expired; tasks = [...]; results = []
                   [s EXCEPT !.data = purge_expired(data, now),
                             !.file = _save(purge_expired(data, now)),
                             !.task = [j \in DOMAIN cfg.offices |-> "waiting"],
                             !.results = <<>>,
                             !.pc = "gather"]
              [] e.kind = "admit" ->        \* async with sem: await check_with_browser_use
                   [s EXCEPT !.permits = @ - 1, !.task[i] = "probing"]
              [] e.kind = "returns" ->      \* append the entry, _handle_result, release
                   LET r == _handle_result(cfg.offices[i], e.out.available, e.out.signatures)
                   IN  [s EXCEPT !.results =
                                    Append(@, results_entry_browser_use(cfg.offices[i], e.out)),
                                 !.data = r.seen,
                                 !.file = IF r.sends # <<>> THEN _save(r.seen) ELSE @,
                                 !.pending = @ \cup Range(r.sends),
                                 !.permits = @ + 1,
                                 !.task[i] = "done"]
              [] e.kind = "raises" ->       \* except Exception: print; release
                   [s EXCEPT !.permits = @ + 1, !.task[i] = "failed"]
              [] e.kind = "end" ->          \* self.latest_results = results; break or sleep
                   [s EXCEPT !.latest_results = results,
                             !.pc = after_iteration_browser_use(cfg.run_once),
                             !.sleepStart = IF cfg.run_once THEN @ ELSE now]
              [] OTHER ->                   \* asyncio.sleep(interval) is over
                   [s EXCEPT !.pc = "loop"]
    IN  [enabled |-> enabled, next |-> IF enabled THEN next ELSE s]

\* run(): the loop of the configured strategy takes the step of the event
LoopStep(e) ==
    LET r == IF checker_type = "playwright" THEN playwright_loop(e) ELSE browseruse_loop(e)
    IN  /\ r.enabled
        /\ e.kind = "head" => hist.iters < MaxIters
        /\ data' = r.next.data
        /\ file' = r.next.file
        /\ pc' = r.next.pc
        /\ permits' = r.next.permits
        /\ task' = r.next.task
        /\ results' = r.next.results
        /\ latest_results' = r.next.latest_results
        /\ pending' = r.next.pending
        /\ sleepStart' = r.next.sleepStart
        /\ hist' = [hist EXCEPT !.iters = IF e.kind = "head" THEN @ + 1 ELSE @,
                                !.published = IF e.kind = "end" THEN @ + 1 ELSE @]
        /\ UNCHANGED <<now, cfg, subs, subs_file, offices_cache, life>>

\* each strategy polling one office for ever behind one permit, and making
\* a single pass over two offices behind two
LoopConfigs ==
    { [BaseConfig EXCEPT !.checker = c, !.offices = <<Offices[1]>>,
                         !.sms_enabled = FALSE, !.email_enabled = FALSE] :
        c \in {"playwright", "browseruse"} }
      \cup
    { [BaseConfig EXCEPT !.checker = c, !.run_once = TRUE, !.max_concurrent_checks = 2,
                         !.sms_enabled = FALSE, !.email_enabled = FALSE] :
        c \in {"playwright", "browseruse"} }

LoopsInit ==
    /\ now = 0
    /\ file = MissingFile
    /\ StoreConstruct(file)
    /\ cfg \in LoopConfigs
    /\ subs = cfg.subscriptions
    /\ subs_file = subs_json_dump(subs)
    /\ offices_cache = <<>>
    /\ permits = 0
    /\ task = <<>>
    /\ results = <<>>
    /\ latest_results = <<>>
    /\ pending = {}
    /\ sleepStart = None
    /\ life = LifeInit

LoopsNext ==
    \/ \E e \in LoopEvents : LoopStep(e)
    \/ TimePasses

SpecLoops == LoopsInit /\ [][LoopsNext]_vars

C34_WitnessOnce ==
    /\ pc = "returned"
    /\ cfg.run_once
    /\ Len(latest_results) = 2
    /\ pending # {}

====
